---------------------------- MODULE Spec2Model ----------------------------
(***************************************************************************)
(* Model of the modular Secure NAS server (src/backend/api/server):        *)
(* StateMachine, Firewall, NFS, Storage, MDNSService, ClientSessions and   *)
(* SecureNASServer.  The server is single threaded: the accept loop of     *)
(* run() calls the connection handler on its own thread, so one handler    *)
(* runs at a time; the only asynchronous event is the SIGINT/SIGTERM       *)
(* handler, which Python runs on the main thread between two steps.        *)
(***************************************************************************)
EXTENDS Integers, Sequences, FiniteSets, TLC

(***************************************************************************)
(* Bounds of the model.                                                    *)
(***************************************************************************)
\* connections of clients with a valid certificate per run
MaxConns == 2
\* rules of the INPUT chain when a Firewall is used on its own
MaxRules == 6
\* messages a client sends in one session
MaxMsgs == 1
\* external tool invocations (iptables, exportfs, file I/O) that fail in a run
MaxToolFailures == 1
\* tool failures in a behaviour of the monolithic implementation
MaxNasFailures == 2
\* shutdown signals delivered to the process
MaxSignals == 1
\* callbacks registered with a StateMachine used on its own
MaxCallbacks == 3
\* transitions a server has made before activate() or run() is called
MaxTransitions == 2

(***************************************************************************)
(* Values.                                                                 *)
(***************************************************************************)
None == "None"

DeviceState == {"DORMANT", "ADVERTISING", "ACTIVE", "SHUTDOWN"}

\* Client addresses, as the text the code handles: 10.0.0.5 and 10.0.0.50
\* hold certificates; 10.0.0.7 is a peer without a valid one
IP_5 == <<"1", "0", ".", "0", ".", "0", ".", "5">>
IP_50 == <<"1", "0", ".", "0", ".", "0", ".", "5", "0">>
IP_7 == <<"1", "0", ".", "0", ".", "0", ".", "7">>
Addresses == {IP_5, IP_50}

\* Python's `needle in haystack` on str: needle is a contiguous part of haystack
StrIn(needle, haystack) ==
    \E i \in 0..(Len(haystack) - Len(needle)) :
        \A j \in 1..Len(needle) : haystack[i + j] = needle[j]

\* str.replace('.', '_')
ReplaceDots(s) == [i \in DOMAIN s |-> IF s[i] = "." THEN "_" ELSE s[i]]

\* rule_id = f"NAS_Client_{client_ip.replace('.', '_')}"
RuleId(client_ip) == <<"NAS_Client_">> \o ReplaceDots(client_ip)

(***************************************************************************)
(* iptables: the INPUT chain is a sequence of rule specifications.  A rule *)
(* specification is the argument list after the chain name.                *)
(***************************************************************************)
\* one word of a command line, as the sequence of its parts
Tok(s) == <<s>>

EstablishedRule == <<Tok("-m"), Tok("state"), Tok("--state"), Tok("ESTABLISHED,RELATED"),
                     Tok("-j"), Tok("ACCEPT")>>
LoopbackRule == <<Tok("-i"), Tok("lo"), Tok("-j"), Tok("ACCEPT")>>
MtlsPortRule == <<Tok("-p"), Tok("tcp"), Tok("--dport"), Tok("mtls_port"), Tok("-j"),
                  Tok("ACCEPT"), Tok("-m"), Tok("comment"), Tok("--comment"),
                  Tok("NAS_mTLS_Port")>>
ClientRule(client_ip) ==
    <<Tok("-p"), Tok("tcp"), Tok("-s"), client_ip, Tok("--dport"), Tok("nfs_port"),
      Tok("-j"), Tok("ACCEPT"), Tok("-m"), Tok("comment"), Tok("--comment"),
      RuleId(client_ip)>>

BaselineRules == <<EstablishedRule, LoopbackRule, MtlsPortRule>>

\* 'NAS_Client_' in line
HasClientComment(line) ==
    \E i \in DOMAIN line : \E k \in DOMAIN line[i] : line[i][k] = "NAS_Client_"

\* position of the first rule of the chain equal to `rule`, 0 if none
FirstIndex(chain, rule) ==
    IF \E i \in DOMAIN chain : chain[i] = rule
    THEN CHOOSE i \in DOMAIN chain :
            chain[i] = rule /\ \A j \in 1..(i - 1) : chain[j] # rule
    ELSE 0

RemoveAt(chain, i) ==
    [j \in 1..(Len(chain) - 1) |-> IF j < i THEN chain[j] ELSE chain[j + 1]]

\* The iptables binary run with argv (after the program name): -A INPUT
\* appends, -D INPUT deletes the first matching rule (non-zero exit if there
\* is none), any other first argument is a usage error that changes nothing.
IptablesExec(argv, chain) ==
    IF Len(argv) >= 3 /\ argv[1] = Tok("-A") /\ argv[2] = Tok("INPUT")
    THEN [rc |-> 0, chain |-> Append(chain, SubSeq(argv, 3, Len(argv)))]
    ELSE IF Len(argv) >= 3 /\ argv[1] = Tok("-D") /\ argv[2] = Tok("INPUT")
    THEN LET i == FirstIndex(chain, SubSeq(argv, 3, Len(argv)))
         IN IF i = 0 THEN [rc |-> 1, chain |-> chain]
                     ELSE [rc |-> 0, chain |-> RemoveAt(chain, i)]
    ELSE [rc |-> 2, chain |-> chain]

\* `iptables -S INPUT`: one line "-A INPUT <rule>" per rule
IptablesList(chain) == [i \in DOMAIN chain |-> <<Tok("-A"), Tok("INPUT")>> \o chain[i]]

(***************************************************************************)
(* Firewall (pkg/firewall.py).  A tool outcome is "ok", "nonzero" (the     *)
(* tool exits non-zero: subprocess.CalledProcessError) or "oserror" (the   *)
(* process could not be run: OSError, which the code does not catch).      *)
(***************************************************************************)
ToolOutcomes == {"ok", "nonzero", "oserror"}

\* Firewall._add_rule: subprocess.run(['iptables','-A','INPUT'] + args, check=True)
\* returns the chain and what was raised
add_rule(args, chain, outcome) ==
    IF outcome = "ok"
    THEN LET r == IptablesExec(<<Tok("-A"), Tok("INPUT")>> \o args, chain)
         IN [chain |-> r.chain, raised |-> IF r.rc = 0 THEN None ELSE "CalledProcessError"]
    ELSE [chain |-> chain,
          raised |-> IF outcome = "nonzero" THEN "CalledProcessError" ELSE "OSError"]

\* Firewall._delete_rule: subprocess.run(['iptables','-D','INPUT'] + args, check=True)
delete_rule(args, chain, outcome) ==
    IF outcome = "ok"
    THEN LET r == IptablesExec(<<Tok("-D"), Tok("INPUT")>> \o args, chain)
         IN [chain |-> r.chain, raised |-> IF r.rc = 0 THEN None ELSE "CalledProcessError"]
    ELSE [chain |-> chain,
          raised |-> IF outcome = "nonzero" THEN "CalledProcessError" ELSE "OSError"]

\* line.replace('-A', '-D').split()
ReplaceAppendByDelete(line) == [i \in DOMAIN line |-> IF line[i] = Tok("-A") THEN Tok("-D") ELSE line[i]]

\* the argv _cleanup_old_nas_rules builds for one listed line:
\* ['iptables'] + rule_parts[1:]   (the program name left out here as in IptablesExec)
CleanupArgv(line) == Tail(ReplaceAppendByDelete(line))

\* Firewall._cleanup_old_nas_rules: for every listed line with a NAS_Client_
\* comment run the rebuilt command, ignoring its exit status (check=False)
RECURSIVE CleanupLines(_, _)
CleanupLines(lines, chain) ==
    IF lines = <<>> THEN chain
    ELSE IF HasClientComment(Head(lines))
         THEN CleanupLines(Tail(lines), IptablesExec(CleanupArgv(Head(lines)), chain).chain)
         ELSE CleanupLines(Tail(lines), chain)

cleanup_old_nas_rules(chain) == CleanupLines(IptablesList(chain), chain)

\* Firewall.initialize: cleanup, then the three baseline rules; the first
\* failing _add_rule raises out of initialize (CalledProcessError is re-raised,
\* OSError is not caught).  fail_at = 0: no failure; k in 1..3: the k-th
\* _add_rule fails.
RECURSIVE AddRulesUntil(_, _, _, _)
AddRulesUntil(rules, chain, k, fail_at) ==
    IF k > Len(rules) THEN [chain |-> chain, raised |-> None]
    ELSE LET r == add_rule(rules[k], chain, IF k = fail_at THEN "nonzero" ELSE "ok")
         IN IF r.raised # None THEN r
            ELSE AddRulesUntil(rules, r.chain, k + 1, fail_at)

initialize(chain, fail_at) ==
    AddRulesUntil(BaselineRules, cleanup_old_nas_rules(chain), 1, fail_at)

\* Firewall._add_client_rule: rule_id, or None when iptables exits non-zero;
\* an OSError propagates
add_client_rule(client_ip, chain, outcome) ==
    LET r == add_rule(ClientRule(client_ip), chain, outcome)
    IN [chain |-> r.chain,
        rule_id |-> IF r.raised = None THEN RuleId(client_ip) ELSE <<>>,
        raised |-> IF r.raised = "OSError" THEN "OSError" ELSE None]

\* faulty variant of remove_client_rule: the rule to delete is built without its
\* comment, so it matches no rule of the chain
remove_client_rule_no_comment(client_ip, rule_id, chain, outcome) ==
    LET r == delete_rule(<<Tok("-p"), Tok("tcp"), Tok("-s"), client_ip, Tok("--dport"),
                           Tok("nfs_port"), Tok("-j"), Tok("ACCEPT")>>, chain, outcome)
    IN [chain |-> r.chain,
        raised |-> IF r.raised = "OSError" THEN "OSError" ELSE None]

\* Firewall._remove_client_rule: CalledProcessError is logged, OSError propagates
remove_client_rule(client_ip, rule_id, chain, outcome) ==
    LET r == delete_rule(<<Tok("-p"), Tok("tcp"), Tok("-s"), client_ip, Tok("--dport"),
                           Tok("nfs_port"), Tok("-j"), Tok("ACCEPT"), Tok("-m"),
                           Tok("comment"), Tok("--comment"), rule_id>>, chain, outcome)
    IN [chain |-> r.chain,
        raised |-> IF r.raised = "OSError" THEN "OSError" ELSE None]

(***************************************************************************)
(* NFS (pkg/nfs.py).  /etc/exports is a sequence of lines; the kernel's    *)
(* export table is the set of lines read by the last successful            *)
(* `exportfs -ra`.                                                         *)
(***************************************************************************)
\* f"{storage_path} {client_ip}(rw,sync,no_subtree_check,no_root_squash,insecure)\n"
ExportLine(client_ip) ==
    <<"storage_path", " ">> \o client_ip
        \o <<"(rw,sync,no_subtree_check,no_root_squash,insecure)", "\n">>

\* ''.join(lines): the text of the file
RECURSIVE Join(_)
Join(lines) == IF lines = <<>> THEN <<>> ELSE Head(lines) \o Join(Tail(lines))

\* [line for line in lines if client_ip not in line]
RECURSIVE FilterOut(_, _)
FilterOut(lines, client_ip) ==
    IF lines = <<>> THEN <<>>
    ELSE IF StrIn(client_ip, Head(lines)) THEN FilterOut(Tail(lines), client_ip)
         ELSE <<Head(lines)>> \o FilterOut(Tail(lines), client_ip)

Range(f) == {f[i] : i \in DOMAIN f}

\* faulty variant of add_export: the line is appended without looking for it
add_export_always_appends(client_ip, exports_file, kernel, outcome) ==
    LET export_line == ExportLine(client_ip)
        written == Append(exports_file, export_line)
    IN CASE outcome = "ok" ->
              [exports_file |-> written, kernel |-> Range(written), success |-> TRUE]
         [] outcome = "nonzero" ->
              [exports_file |-> written, kernel |-> kernel, success |-> FALSE]
         [] OTHER ->
              [exports_file |-> exports_file, kernel |-> kernel, success |-> FALSE]

\* NFS._add_export.  "ok": line appended if absent, reload succeeds, True.
\* "nonzero": line appended if absent, exportfs fails, False.  "oserror":
\* the file cannot be read or written, nothing changes, False.
add_export(client_ip, exports_file, kernel, outcome) ==
    LET export_line == ExportLine(client_ip)
        written == IF ~StrIn(export_line, Join(exports_file))
                   THEN Append(exports_file, export_line)
                   ELSE exports_file
    IN CASE outcome = "ok" ->
              [exports_file |-> written, kernel |-> Range(written), success |-> TRUE]
         [] outcome = "nonzero" ->
              [exports_file |-> written, kernel |-> kernel, success |-> FALSE]
         [] OTHER ->
              [exports_file |-> exports_file, kernel |-> kernel, success |-> FALSE]

\* NFS._remove_export: drop every line that contains client_ip, write the
\* file back, reload; every failure is logged and swallowed
remove_export(client_ip, exports_file, kernel, outcome) ==
    LET filtered == FilterOut(exports_file, client_ip)
    IN CASE outcome = "ok" -> [exports_file |-> filtered, kernel |-> Range(filtered)]
         [] outcome = "nonzero" -> [exports_file |-> filtered, kernel |-> kernel]
         [] OTHER -> [exports_file |-> exports_file, kernel |-> kernel]

(***************************************************************************)
(* Storage (pkg/storage.py) and MDNSService (pkg/mdns_service.py).         *)
(***************************************************************************)
\* Storage.unlock: the flag after the call (False when the path is missing)
unlock(path_exists) == path_exists

\* Storage.unlock: what the call returns
unlock_returns(path_exists) == IF path_exists THEN TRUE ELSE FALSE

\* faulty variant of lock: the flag is flipped instead of cleared
lock_toggles(is_unlocked) == ~is_unlocked

\* Storage.lock: the flag after the call
lock(is_unlocked) == FALSE

\* Storage.lock: what the call returns
lock_returns(is_unlocked) == TRUE

\* MDNSService._process: no child process
NoProcess == [status |-> "none", clients |-> 0]

\* An MDNSService m is its _process (the TXT record of the child it refers
\* to, or NoProcess) and children, the publisher processes it has started
\* that are still running, in the order they were started.
NoService == [process |-> NoProcess, children |-> <<>>]

\* self._process.terminate() and wait(): the child _process refers to, which
\* is the one started last, is no longer running
Terminate(children, process) ==
    IF children # <<>> /\ children[Len(children)] = process
    THEN SubSeq(children, 1, Len(children) - 1)
    ELSE children

\* faulty variant of stop: the reference is dropped, the child is left running
stop_forgets(m) == [m EXCEPT !.process = NoProcess]

\* MDNSService.stop
stop(m) ==
    IF m.process # NoProcess
    THEN [process |-> NoProcess, children |-> Terminate(m.children, m.process)]
    ELSE m

\* MDNSService._start_broadcast: Popen of the publisher; when the binary is
\* missing (FileNotFoundError) the warning is logged and _process is unchanged
start_broadcast(m, txt_record, avahi) ==
    IF avahi
    THEN [process |-> txt_record, children |-> Append(m.children, txt_record)]
    ELSE m

\* MDNSService.start_advertising
start_advertising(m, avahi) ==
    start_broadcast(stop(m), [status |-> "advertising", clients |-> 0], avahi)

\* MDNSService.start_active
start_active(m, num_clients, avahi) ==
    start_broadcast(stop(m), [status |-> "active", clients |-> num_clients], avahi)

(***************************************************************************)
(* StateMachine (state_machine.py) and the callbacks SecureNASServer       *)
(* registers (server.py, _register_state_callbacks).                       *)
(*                                                                         *)
(* A world w is the part of the program state the callbacks act on:        *)
(*   state, iptables, is_unlocked, ssl_context, mdns_process,              *)
(*   mdns_children,                                                        *)
(*   server_socket, enter_cb and exit_cb (the registered callbacks of each *)
(*   state), hooks (the callbacks run so far, with the state each observed *)
(*   and whether it raised), exc (the exception leaving the call).         *)
(* An environment e gives what the callbacks read and the outcome of the   *)
(* tools they call: active_count, path_exists, avahi, fail_at.             *)
(***************************************************************************)
\* StateMachine._enter_callbacks of the server, in registration order
enter_callbacks(s) ==
    CASE s = "DORMANT" -> <<"enter_dormant">>
      [] s = "ADVERTISING" -> <<"enter_advertising">>
      [] s = "ACTIVE" -> <<"enter_active">>
      [] s = "SHUTDOWN" -> <<"enter_shutdown">>

\* StateMachine._exit_callbacks of the server, in registration order
exit_callbacks(s) ==
    CASE s = "ADVERTISING" -> <<"exit_advertising">>
      [] s = "ACTIVE" -> <<"exit_active">>
      [] OTHER -> <<>>

\* the MDNSService of a world, and a world with its MDNSService replaced
Mdns(w) == [process |-> w.mdns_process, children |-> w.mdns_children]
WithMdns(w, m) == [w EXCEPT !.mdns_process = m.process, !.mdns_children = m.children]

RECURSIVE transition_to(_, _, _)
RECURSIVE execute_callbacks(_, _, _)
RECURSIVE run_callback(_, _, _)
RECURSIVE perform_shutdown(_, _)

\* faulty variant of enter_advertising: a failed unlock ends the callback
enter_advertising_needs_storage(w, e) ==
    LET fw == initialize(w.iptables, e.fail_at)
    IN IF fw.raised # None
       THEN [w EXCEPT !.iptables = fw.chain, !.exc = "Exception"]
       ELSE IF ~unlock_returns(e.path_exists)
       THEN [w EXCEPT !.iptables = fw.chain, !.is_unlocked = unlock(e.path_exists)]
       ELSE WithMdns([w EXCEPT !.iptables = fw.chain,
                               !.is_unlocked = unlock(e.path_exists),
                               !.ssl_context = TRUE],
                     start_advertising(Mdns(w), e.avahi))

\* enter_advertising: firewall.initialize(); storage.unlock();
\* _setup_ssl_context(); mdns.start_advertising().  An exception of
\* initialize leaves the callback at once.
enter_advertising(w, e) ==
    LET fw == initialize(w.iptables, e.fail_at)
    IN IF fw.raised # None
       THEN [w EXCEPT !.iptables = fw.chain, !.exc = "Exception"]
       ELSE WithMdns([w EXCEPT !.iptables = fw.chain,
                               !.is_unlocked = unlock(e.path_exists),
                               !.ssl_context = TRUE],
                     start_advertising(Mdns(w), e.avahi))

\* exit_advertising: logs only
exit_advertising(w, e) == w

\* enter_active: unlock if locked; mdns.start_active(sessions.active_count)
enter_active(w, e) ==
    WithMdns([w EXCEPT !.is_unlocked =
                           IF ~w.is_unlocked THEN unlock(e.path_exists) ELSE TRUE],
             start_active(Mdns(w), e.active_count, e.avahi))

\* exit_active: mdns.stop(); lock if unlocked
exit_active(w, e) ==
    WithMdns([w EXCEPT !.is_unlocked =
                           IF w.is_unlocked THEN lock(w.is_unlocked) ELSE FALSE],
             stop(Mdns(w)))

\* SecureNASServer._perform_shutdown, called by enter_shutdown; the socket
\* it closes is the plain one, which wrap_socket has detached
perform_shutdown(w, e) ==
    LET current == w.state
        w1 == IF current = "ACTIVE" THEN transition_to(w, "ADVERTISING", e) ELSE w
        w2 == IF w1.state = "ADVERTISING" THEN transition_to(w1, "DORMANT", e) ELSE w1
    IN [w2 EXCEPT !.server_socket =
            IF w2.server_socket # None THEN "closed" ELSE w2.server_socket]

\* callbacks of a StateMachine other than the server's: one that returns and
\* one that raises
Callbacks == {"returns", "raises"}

\* one callback is called: it is logged with the state it observes; the
\* result carries the exception it raised, if any, in exc
run_callback(name, w, e) ==
    LET logged == [w EXCEPT !.hooks = Append(w.hooks,
                                [hook |-> name, seen |-> w.state, raised |-> FALSE])]
    IN CASE name = "enter_dormant" -> logged
         [] name = "enter_advertising" -> enter_advertising(logged, e)
         [] name = "exit_advertising" -> exit_advertising(logged, e)
         [] name = "enter_active" -> enter_active(logged, e)
         [] name = "exit_active" -> exit_active(logged, e)
         [] name = "enter_shutdown" -> perform_shutdown(logged, e)
         [] name = "returns" -> logged
         [] name = "raises" -> [logged EXCEPT !.exc = "Exception"]

\* except Exception as e: logger.error(...): the exception is noted in the
\* log and goes no further
logged_error(w) ==
    IF w.exc = None THEN w
    ELSE [w EXCEPT !.exc = None, !.hooks[Len(w.hooks)].raised = TRUE]

\* faulty variant of execute_callbacks: no try/except around the call, the first
\* exception ends the loop and leaves the function
execute_callbacks_unprotected(callbacks, w, e) ==
    IF callbacks = <<>> THEN w
    ELSE LET r == run_callback(Head(callbacks), w, e)
         IN IF r.exc # None THEN r
            ELSE execute_callbacks(Tail(callbacks), r, e)

\* StateMachine._execute_callbacks: every callback in order; an Exception
\* of one is logged and the next one runs
execute_callbacks(callbacks, w, e) ==
    IF callbacks = <<>> THEN w
    ELSE execute_callbacks(Tail(callbacks),
                           logged_error(run_callback(Head(callbacks), w, e)), e)

\* faulty variant of transition_to: no early return when the state is the same
transition_to_unconditional(w, new_state, e) ==
    LET old_state == w.state
        exited == execute_callbacks(w.exit_cb[old_state], w, e)
        updated == [exited EXCEPT !.state = new_state]
    IN execute_callbacks(w.enter_cb[new_state], updated, e)

\* faulty variant of transition_to: the state is assigned before the exit
\* callbacks run
transition_to_state_first(w, new_state, e) ==
    IF w.state = new_state THEN w
    ELSE LET old_state == w.state
             updated == [w EXCEPT !.state = new_state]
             exited == execute_callbacks(w.exit_cb[old_state], updated, e)
         IN execute_callbacks(w.enter_cb[new_state], exited, e)

\* StateMachine.transition_to; an exception that left _execute_callbacks
\* would leave transition_to at that point
transition_to(w, new_state, e) ==
    IF w.state = new_state THEN w
    ELSE LET old_state == w.state
             exited == execute_callbacks(w.exit_cb[old_state], w, e)
             updated == [exited EXCEPT !.state = new_state]
         IN IF exited.exc # None THEN exited
            ELSE execute_callbacks(w.enter_cb[new_state], updated, e)

(***************************************************************************)
(* ClientSessions.handle_command (server.py): the kind of reply            *)
(***************************************************************************)
Messages == {"LIST_FILES", "READ_FILE:name", "hello"}

handle_command(command) ==
    CASE command = "LIST_FILES" -> "listing"
      [] command = "READ_FILE:name" -> "file"
      [] OTHER -> "ack"

(***************************************************************************)
(* State.                                                                  *)
(***************************************************************************)
VARIABLES
    state,           \* StateMachine._state
    hooks,           \* callbacks run by the latest transition_to call
    iptables,        \* the INPUT chain
    exports_file,    \* /etc/exports
    kernel_exports,  \* lines exported by the last successful exportfs -ra
    is_unlocked,     \* Storage._is_unlocked
    ssl_context,     \* SecureNASServer.ssl_context is set
    mdns_process,    \* MDNSService._process
    mdns_children,   \* the publisher processes started and still running
    server_socket,   \* SecureNASServer.server_socket, the plain socket: None, detached, closed
    secure_sock,     \* the TLS listening socket of run(): None, listening, closed
    sessions,        \* keys of ClientSessions._sessions
    path_exists,     \* environment: the storage path exists
    avahi,           \* environment: the mDNS publisher binary exists
    pc,              \* where the main thread is
    h,               \* locals of the running connection handler
    sent,            \* what the server sent on the current connection
    authenticated,   \* addresses that passed the TLS handshake
    grants,          \* per grant half: acquisitions minus releases so far
    last,            \* what the latest accept() led to: address, how it ended
    sig,             \* the first shutdown signal: the state, whether a handler was in
                     \* its message loop, and the registry count when it arrived
    removal_failed,  \* a release step (rule deletion, export removal) has failed
    waiting,         \* another client has connected during the open session and
                     \* sits in the listen backlog
    sm,              \* a StateMachine object of its own, with any callbacks registered
    call,            \* the latest call of activate() or run(): which, and in what state
    active_clients,  \* secure_nas_server.py: SecureNASServer.active_clients, in
                     \* insertion order
    nconns, nmsgs, nfails, nsignals

vars == <<state, hooks, iptables, exports_file, kernel_exports, is_unlocked,
          ssl_context, mdns_process, mdns_children, server_socket, secure_sock,
          sessions, path_exists,
          avahi, pc, h, sent, authenticated, grants, last, sig, removal_failed, waiting,
          sm, call, active_clients, nconns, nmsgs, nfails, nsignals>>

NoIp == <<>>

\* rule_id: <<>> stands for None; wrote_line: _add_export of this handler
\* appended a line to the export table
NoHandler ==
    [ip |-> NoIp, rule_id |-> <<>>, success |-> FALSE, exc |-> None, reason |-> None,
     session |-> FALSE, fw_tried |-> FALSE, nfs_tried |-> FALSE,
     fw_released |-> 0, nfs_released |-> 0, unregistered |-> FALSE,
     chain_before |-> <<>>, wrote_line |-> FALSE]

NoLast == [ip |-> NoIp, reason |-> None, clean |-> FALSE, chain_before |-> <<>>]

NoSignal == [state |-> None, in_loop |-> FALSE, count |-> 0]

\* StateMachine.__init__: DORMANT, no callback registered; called and before
\* are the argument of the latest transition_to call and the state it found
NoStateMachine ==
    [state |-> "DORMANT",
     enter_cb |-> [s \in DeviceState |-> <<>>],
     exit_cb |-> [s \in DeviceState |-> <<>>],
     hooks |-> <<>>, exc |-> None, called |-> None, before |-> None]

NoCall == [op |-> None, in |-> None]

World ==
    [state |-> state, iptables |-> iptables, is_unlocked |-> is_unlocked,
     ssl_context |-> ssl_context, mdns_process |-> mdns_process,
     mdns_children |-> mdns_children,
     server_socket |-> server_socket,
     enter_cb |-> [s \in DeviceState |-> enter_callbacks(s)],
     exit_cb |-> [s \in DeviceState |-> exit_callbacks(s)],
     hooks |-> <<>>, exc |-> None]

Env(fail_at) ==
    [active_count |-> Cardinality(sessions), path_exists |-> path_exists,
     avahi |-> avahi, fail_at |-> fail_at]

Install(w) ==
    /\ state' = w.state
    /\ iptables' = w.iptables
    /\ is_unlocked' = w.is_unlocked
    /\ ssl_context' = w.ssl_context
    /\ mdns_process' = w.mdns_process
    /\ mdns_children' = w.mdns_children
    /\ server_socket' = w.server_socket
    /\ hooks' = w.hooks

worldvars == <<state, iptables, is_unlocked, ssl_context, mdns_process, mdns_children,
               server_socket, hooks>>
envvars == <<path_exists, avahi>>
nfsvars == <<exports_file, kernel_exports>>

\* a tool may fail while the failure budget lasts
Failing(outcome) == outcome # "ok"
MayFail(failed) == ~failed \/ nfails < MaxToolFailures
CountFail(failed) == nfails' = IF failed THEN nfails + 1 ELSE nfails

\* outcomes of Firewall.initialize when transition_to(new_state) is called
\* in the current state: it runs only on entering ADVERTISING
FailAts(new_state) ==
    IF new_state = "ADVERTISING" /\ state # "ADVERTISING" THEN 0..Len(BaselineRules) ELSE {0}

\* SecureNASServer.__init__: state machine DORMANT, storage locked, no
\* broadcast, no TLS context, no socket, no session
Init ==
    /\ state = "DORMANT"
    /\ hooks = <<>>
    /\ iptables = <<>>
    /\ exports_file = <<>>
    /\ kernel_exports = {}
    /\ is_unlocked = FALSE
    /\ ssl_context = FALSE
    /\ mdns_process = NoProcess
    /\ mdns_children = <<>>
    /\ server_socket = None
    /\ secure_sock = None
    /\ sessions = {}
    /\ path_exists \in BOOLEAN
    /\ avahi \in BOOLEAN
    /\ pc = "constructed"
    /\ h = NoHandler
    /\ sent = <<>>
    /\ authenticated = {}
    /\ grants = [firewall |-> 0, nfs |-> 0]
    /\ last = NoLast
    /\ sig = NoSignal
    /\ removal_failed = FALSE
    /\ waiting = FALSE
    /\ sm = NoStateMachine
    /\ call = NoCall
    /\ active_clients = <<>>
    /\ nconns = 0 /\ nmsgs = 0 /\ nfails = 0 /\ nsignals = 0

(***************************************************************************)
(* SecureNASServer: lifecycle (server.py).                                 *)
(***************************************************************************)
\* the with blocks of run() are left: the listening socket is closed.
\* wrap_socket has detached the plain socket kept in self.server_socket, so
\* only leaving `with ... as secure_sock` closes the listener.
CloseSocket(listener) == IF listener = None THEN None ELSE "closed"

\* faulty variant of Activate: no check of the state
ActivateAnyState ==
    /\ pc = "constructed"
    /\ \E fail_at \in 0..Len(BaselineRules) :
          /\ MayFail(fail_at # 0)
          /\ CountFail(fail_at # 0)
          /\ Install(transition_to(World, "ADVERTISING", Env(fail_at)))
    /\ call' = [op |-> "activate", in |-> state]
    /\ UNCHANGED <<nfsvars, sessions, envvars, active_clients, sm, waiting, secure_sock, pc, h, sent,
                   authenticated, grants, last, sig, removal_failed, nconns, nmsgs,
                   nsignals>>

\* activate(): DORMANT -> ADVERTISING, otherwise a warning
Activate ==
    /\ pc = "constructed"
    /\ \E fail_at \in (IF state = "DORMANT" THEN FailAts("ADVERTISING") ELSE {0}) :
          /\ MayFail(fail_at # 0)
          /\ CountFail(fail_at # 0)
          /\ IF state = "DORMANT"
             THEN Install(transition_to(World, "ADVERTISING", Env(fail_at)))
             ELSE UNCHANGED worldvars
    /\ call' = [op |-> "activate", in |-> state]
    /\ UNCHANGED <<nfsvars, sessions, envvars, active_clients, sm, waiting, secure_sock, pc, h, sent, authenticated, grants, last,
                   sig, removal_failed, nconns, nmsgs, nsignals>>

\* faulty variant of Run: no check of the state
RunUnguarded ==
    /\ pc = "constructed"
    /\ IF ssl_context
       THEN pc' = "accept" /\ server_socket' = "detached" /\ secure_sock' = "listening"
       ELSE pc' = "crashed" /\ server_socket' = "closed" /\ UNCHANGED secure_sock
    /\ call' = [op |-> "run", in |-> state]
    /\ UNCHANGED <<state, hooks, iptables, is_unlocked, ssl_context, mdns_process,
                   mdns_children,
                   nfsvars, sessions, envvars, active_clients, sm, waiting, h, sent, authenticated,
                   grants, last, sig, removal_failed, nconns, nmsgs, nfails, nsignals>>

\* run() up to the accept loop: returns when not ADVERTISING; binds the
\* socket; self.ssl_context.wrap_socket raises AttributeError when the TLS
\* context was never built, which nothing catches
Run ==
    /\ pc = "constructed"
    /\ IF state # "ADVERTISING"
       THEN UNCHANGED <<pc, server_socket, secure_sock>>
       ELSE IF ssl_context
            THEN pc' = "accept" /\ server_socket' = "detached" /\ secure_sock' = "listening"
            ELSE pc' = "crashed" /\ server_socket' = "closed" /\ UNCHANGED secure_sock
    /\ call' = [op |-> "run", in |-> state]
    /\ UNCHANGED <<state, hooks, iptables, is_unlocked, ssl_context, mdns_process,
                   mdns_children,
                   nfsvars, sessions, envvars, active_clients, sm, waiting, h, sent, authenticated, grants, last,
                   sig, removal_failed, nconns, nmsgs, nfails, nsignals>>

\* faulty variant of AcceptError: the handshake does not insist on a verified
\* certificate and the connection is handed to _handle_client_connection
AcceptUnverified ==
    /\ pc = "accept"
    /\ state # "SHUTDOWN"
    /\ secure_sock = "listening"
    /\ h' = [NoHandler EXCEPT !.ip = IP_7, !.chain_before = iptables]
    /\ pc' = "h_active"
    /\ last' = NoLast
    /\ waiting' = FALSE
    /\ UNCHANGED <<worldvars, nfsvars, sessions, envvars, active_clients, sm, call, secure_sock, sent, authenticated,
                   grants, sig, removal_failed, nconns, nmsgs, nfails, nsignals>>

\* secure_sock.accept() raises ssl.SSLError: the handshake of the peer failed
\* under CERT_REQUIRED (no client certificate, or one that does not verify
\* against the CA file) before accept() has returned an address.  The error
\* is logged and the loop goes on.
AcceptError ==
    /\ pc = "accept"
    /\ state # "SHUTDOWN"
    /\ secure_sock = "listening"
    /\ last' = [NoLast EXCEPT !.reason = "handshake"]
    /\ waiting' = FALSE
    /\ UNCHANGED <<worldvars, nfsvars, sessions, envvars, active_clients, sm, call, secure_sock, pc, h, sent,
                   authenticated, grants, sig, removal_failed, nconns, nmsgs, nfails,
                   nsignals>>

\* the accept loop's condition is false: run() returns
LoopExit ==
    /\ pc = "accept"
    /\ state = "SHUTDOWN"
    /\ pc' = "exited"
    /\ secure_sock' = CloseSocket(secure_sock)
    /\ waiting' = FALSE
    /\ UNCHANGED <<state, hooks, iptables, is_unlocked, ssl_context, mdns_process,
                   mdns_children,
                   server_socket, nfsvars, sessions, envvars, active_clients, sm, call, h, sent, authenticated, grants, last,
                   sig, removal_failed, nconns, nmsgs, nfails, nsignals>>

\* sock.listen(5): while the main thread runs a handler, the kernel completes
\* the TCP connection of another client (one with a different address) and
\* queues it; nothing in the program observes it before the next accept()
Connect ==
    /\ pc = "h_recv"
    /\ ~waiting
    /\ nconns < MaxConns
    /\ nconns' = nconns + 1
    /\ waiting' = TRUE
    /\ UNCHANGED <<worldvars, nfsvars, sessions, envvars, active_clients, sm, call, secure_sock, pc, h, sent,
                   authenticated, grants, last, sig, removal_failed, nmsgs, nfails,
                   nsignals>>

\* secure_sock.accept() returns a connection whose peer certificate verified
\* (the queued one if there is one, else a new arrival);
\* _handle_client_connection starts (getpeercert() is non-empty under CERT_REQUIRED)
Accept(client_ip) ==
    /\ pc = "accept"
    /\ state # "SHUTDOWN"
    /\ secure_sock = "listening"
    /\ IF waiting
       THEN client_ip # last.ip /\ UNCHANGED nconns
       ELSE nconns < MaxConns /\ nconns' = nconns + 1
    /\ waiting' = FALSE
    /\ authenticated' = authenticated \cup {client_ip}
    /\ h' = [NoHandler EXCEPT !.ip = client_ip, !.chain_before = iptables]
    /\ sent' = <<>>
    /\ nmsgs' = 0
    /\ pc' = "h_active"
    /\ last' = NoLast
    /\ UNCHANGED <<worldvars, nfsvars, sessions, envvars, active_clients, sm, call, secure_sock, grants, sig, removal_failed, nfails,
                   nsignals>>

(***************************************************************************)
(* SecureNASServer._handle_client_connection, step by step.                *)
(***************************************************************************)
\* if not self.sessions.has_clients: transition_to(ACTIVE)
HandlerActive ==
    /\ pc = "h_active"
    /\ IF sessions = {}
       THEN Install(transition_to(World, "ACTIVE", Env(0)))
       ELSE UNCHANGED worldvars
    /\ pc' = "h_session"
    /\ UNCHANGED <<nfsvars, sessions, envvars, active_clients, sm, call, waiting, secure_sock, h, sent, authenticated, grants, last, sig, removal_failed,
                   nconns, nmsgs, nfails, nsignals>>

\* ClientSessions._create_session
create_session(registry, client_ip) == registry \cup {client_ip}

\* ClientSessions._remove_session
remove_session(registry, client_ip) == registry \ {client_ip}

\* faulty variant of HandlerSession: the welcome is sent as soon as the session exists
HandlerSessionGreets ==
    /\ pc = "h_session"
    /\ sessions' = create_session(sessions, h.ip)
    /\ h' = [h EXCEPT !.session = TRUE]
    /\ sent' = Append(sent, "welcome")
    /\ pc' = "h_allow"
    /\ UNCHANGED <<worldvars, nfsvars, envvars, active_clients, sm, call, waiting, secure_sock, authenticated, grants, last, sig,
                   removal_failed, nconns, nmsgs, nfails, nsignals>>

\* client_access: session = self._create_session(...)
HandlerSession ==
    /\ pc = "h_session"
    /\ sessions' = create_session(sessions, h.ip)
    /\ h' = [h EXCEPT !.session = TRUE]
    /\ pc' = "h_allow"
    /\ UNCHANGED <<worldvars, nfsvars, envvars, active_clients, sm, call, waiting, secure_sock, sent, authenticated, grants, last, sig, removal_failed,
                   nconns, nmsgs, nfails, nsignals>>

\* with self.firewall.allow_client(client_ip): rule_id = _add_client_rule(...)
\* An OSError leaves client_access before any try block was entered.
HandlerAllow ==
    /\ pc = "h_allow"
    /\ \E outcome \in ToolOutcomes :
          /\ MayFail(Failing(outcome))
          /\ CountFail(Failing(outcome))
          /\ LET r == add_client_rule(h.ip, iptables, outcome)
             IN /\ iptables' = r.chain
                /\ IF r.raised # None
                   THEN /\ h' = [h EXCEPT !.fw_tried = TRUE, !.exc = "Exception",
                                          !.reason = "error"]
                        /\ pc' = "h_finally"
                        /\ UNCHANGED grants
                   ELSE /\ h' = [h EXCEPT !.fw_tried = TRUE, !.rule_id = r.rule_id]
                        /\ pc' = "h_export"
                        /\ grants' = [grants EXCEPT !.firewall =
                                         IF r.rule_id # <<>> THEN @ + 1 ELSE @]
    /\ UNCHANGED <<state, hooks, is_unlocked, ssl_context, mdns_process, mdns_children,
                   server_socket,
                   nfsvars, sessions, envvars, active_clients, sm, call, waiting, secure_sock, sent, authenticated, last, sig, removal_failed,
                   nconns, nmsgs, nsignals>>

\* with self.nfs.export_for_client(client_ip): success = _add_export(...)
HandlerExport ==
    /\ pc = "h_export"
    /\ \E outcome \in ToolOutcomes :
          /\ MayFail(Failing(outcome))
          /\ CountFail(Failing(outcome))
          /\ LET r == add_export(h.ip, exports_file, kernel_exports, outcome)
             IN /\ exports_file' = r.exports_file
                /\ kernel_exports' = r.kernel
                /\ h' = [h EXCEPT !.nfs_tried = TRUE, !.success = r.success,
                                  !.wrote_line = (r.exports_file # exports_file)]
                /\ grants' = [grants EXCEPT !.nfs =
                                 IF r.success THEN @ + 1 ELSE @]
    /\ pc' = "h_welcome"
    /\ UNCHANGED <<worldvars, sessions, envvars, active_clients, sm, call, waiting, secure_sock, sent, authenticated, last, sig, removal_failed,
                   nconns, nmsgs, nsignals>>

\* _communicate_with_client: conn.sendall(welcome); the peer may already
\* be gone, and sendall raises
HandlerWelcome ==
    /\ pc = "h_welcome"
    /\ \E delivered \in BOOLEAN :
          IF delivered
          THEN /\ sent' = Append(sent, "welcome")
               /\ pc' = "h_recv"
               /\ UNCHANGED h
          ELSE /\ h' = [h EXCEPT !.exc = "Exception", !.reason = "error"]
               /\ pc' = "c_session"
               /\ sent' = <<>>
    /\ UNCHANGED <<worldvars, nfsvars, sessions, envvars, active_clients, sm, call, waiting, secure_sock, authenticated, grants, last,
                   sig, removal_failed, nconns, nmsgs, nfails, nsignals>>

\* the message loop: one conn.recv(1024) and what follows it; leaving the
\* loop leaves `with conn`, which closes the connection
HandlerRecv ==
    /\ pc = "h_recv"
    /\ \/ \E message \in Messages :
             /\ nmsgs < MaxMsgs
             /\ nmsgs' = nmsgs + 1
             /\ sent' = Append(sent, handle_command(message))
             /\ UNCHANGED <<pc, h>>
       \/ /\ h' = [h EXCEPT !.reason = "closed"]
          /\ pc' = "c_session"
          /\ sent' = <<>> /\ nmsgs' = 0
       \/ /\ h' = [h EXCEPT !.exc = "timeout", !.reason = "timeout"]
          /\ pc' = "c_session"
          /\ sent' = <<>> /\ nmsgs' = 0
       \/ /\ h' = [h EXCEPT !.exc = "Exception", !.reason = "error"]
          /\ pc' = "c_session"
          /\ sent' = <<>> /\ nmsgs' = 0
    /\ UNCHANGED <<worldvars, nfsvars, sessions, envvars, active_clients, sm, call, waiting, secure_sock, authenticated, grants, last,
                   sig, removal_failed, nconns, nfails, nsignals>>

(***************************************************************************)
(* The cleanup of the handler: the finally blocks, innermost first.        *)
(***************************************************************************)
\* faulty variant of CleanupSession: the return to ADVERTISING is made as
\* soon as the registry is empty, before the grant halves are released
CleanupSessionAdvertises ==
    /\ pc = "c_session"
    /\ sessions' = remove_session(sessions, h.ip)
    /\ IF remove_session(sessions, h.ip) = {}
       THEN Install(transition_to(World, "ADVERTISING", Env(0)))
       ELSE UNCHANGED worldvars
    /\ h' = [h EXCEPT !.unregistered = TRUE]
    /\ pc' = "c_export"
    /\ UNCHANGED <<nfsvars, envvars, active_clients, sm, call, waiting, secure_sock, sent, authenticated, grants, last, sig, removal_failed,
                   nconns, nmsgs, nfails, nsignals>>

\* client_access: finally: self._remove_session(client_ip)
CleanupSession ==
    /\ pc = "c_session"
    /\ sessions' = remove_session(sessions, h.ip)
    /\ h' = [h EXCEPT !.unregistered = TRUE]
    /\ pc' = "c_export"
    /\ UNCHANGED <<worldvars, nfsvars, envvars, active_clients, sm, call, waiting, secure_sock, sent, authenticated, grants, last, sig, removal_failed,
                   nconns, nmsgs, nfails, nsignals>>

\* faulty variant of ExportReleaseDue: the release is skipped when an exception unwinds
ExportReleaseOnReturnOnly(locals) == locals.success /\ locals.exc = None

\* export_for_client: `if success:` in the finally block
ExportReleaseDue(locals) == locals.success

\* allow_client: `if rule_id:` in the finally block
FirewallReleaseDue(locals) == locals.rule_id # <<>>

\* export_for_client: finally: if success: self._remove_export(client_ip)
CleanupExport ==
    /\ pc = "c_export"
    /\ IF ExportReleaseDue(h)
       THEN \E outcome \in ToolOutcomes :
               /\ MayFail(Failing(outcome))
               /\ CountFail(Failing(outcome))
               /\ LET r == remove_export(h.ip, exports_file, kernel_exports, outcome)
                  IN /\ exports_file' = r.exports_file
                     /\ kernel_exports' = r.kernel
               /\ h' = [h EXCEPT !.nfs_released = @ + 1]
               /\ grants' = [grants EXCEPT !.nfs = @ - 1]
               /\ removal_failed' = (removal_failed \/ Failing(outcome))
       ELSE UNCHANGED <<nfsvars, h, grants, nfails, removal_failed>>
    /\ pc' = "c_firewall"
    /\ UNCHANGED <<worldvars, sessions, envvars, active_clients, sm, call, waiting, secure_sock, sent, authenticated, last, sig,
                   nconns, nmsgs, nsignals>>

\* allow_client: finally: if rule_id: self._remove_client_rule(client_ip, rule_id)
\* An OSError raised here replaces the exception being propagated.
CleanupFirewall ==
    /\ pc = "c_firewall"
    /\ IF FirewallReleaseDue(h)
       THEN \E outcome \in ToolOutcomes :
               /\ MayFail(Failing(outcome))
               /\ CountFail(Failing(outcome))
               /\ LET r == remove_client_rule(h.ip, h.rule_id, iptables, outcome)
                  IN /\ iptables' = r.chain
                     /\ h' = [h EXCEPT !.fw_released = @ + 1,
                                       !.exc = IF r.raised # None THEN "Exception" ELSE @]
               /\ grants' = [grants EXCEPT !.firewall = @ - 1]
               /\ removal_failed' = (removal_failed \/ Failing(outcome))
       ELSE UNCHANGED <<iptables, h, grants, nfails, removal_failed>>
    /\ pc' = "h_finally"
    /\ UNCHANGED <<state, hooks, is_unlocked, ssl_context, mdns_process, mdns_children,
                   server_socket,
                   nfsvars, sessions, envvars, active_clients, sm, call, waiting, secure_sock, sent, authenticated, last, sig,
                   nconns, nmsgs, nsignals>>

\* _handle_client_connection: finally: if not has_clients:
\* transition_to(ADVERTISING).  socket.timeout and Exception were caught and
\* the handler returns to the accept loop; SystemExit goes on through run(),
\* whose with blocks close the socket, and ends the process.
HandlerFinally ==
    /\ pc = "h_finally"
    /\ \E fail_at \in (IF sessions = {} THEN FailAts("ADVERTISING") ELSE {0}) :
          /\ MayFail(fail_at # 0)
          /\ CountFail(fail_at # 0)
          /\ LET w == IF sessions = {}
                      THEN transition_to(World, "ADVERTISING", Env(fail_at))
                      ELSE World
             IN IF h.exc = "SystemExit"
                THEN /\ Install(w) /\ pc' = "exited"
                     /\ secure_sock' = CloseSocket(secure_sock)
                     /\ waiting' = FALSE
                ELSE /\ Install(w) /\ pc' = "accept"
                     /\ UNCHANGED <<secure_sock, waiting>>
    /\ last' = [ip |-> h.ip, reason |-> h.reason,
                clean |-> h.reason = "closed" /\ h.exc = None,
                chain_before |-> h.chain_before]
    /\ h' = NoHandler
    /\ UNCHANGED <<nfsvars, sessions, envvars, active_clients, sm, call, sent, authenticated, grants, sig, removal_failed,
                   nconns, nmsgs, nsignals>>

(***************************************************************************)
(* _handle_shutdown_signal: transition_to(SHUTDOWN); sys.exit(0).  The     *)
(* SystemExit is raised where the main thread is, and unwinds the finally  *)
(* blocks entered so far; outside a handler it ends the process.           *)
(***************************************************************************)
\* where the unwinding of SystemExit continues, from each position
UnwindFrom(at) ==
    CASE at \in {"constructed", "accept"} -> "exited"
      [] at \in {"h_active", "h_session", "h_allow"} -> "h_finally"
      [] at = "h_export" -> "c_firewall"
      [] at \in {"h_welcome", "h_recv"} -> "c_session"
      [] OTHER -> at

ShutdownSignal ==
    /\ pc \notin {"exited", "crashed"}
    /\ nsignals < MaxSignals
    /\ nsignals' = nsignals + 1
    /\ sig' = IF nsignals = 0
              THEN [state |-> state, in_loop |-> (pc = "h_recv"),
                    count |-> Cardinality(sessions)]
              ELSE sig
    /\ LET w == transition_to(World, "SHUTDOWN", Env(0))
       IN /\ Install(w)
          /\ secure_sock' = IF UnwindFrom(pc) = "exited" THEN CloseSocket(secure_sock)
                            ELSE secure_sock
          /\ waiting' = IF UnwindFrom(pc) = "exited" THEN FALSE ELSE waiting
    /\ pc' = UnwindFrom(pc)
    /\ h' = IF pc \in {"constructed", "accept"} THEN h
            ELSE [h EXCEPT !.exc = "SystemExit",
                           !.reason = IF @ = None THEN "signal" ELSE @]
    /\ sent' = IF UnwindFrom(pc) = pc THEN sent ELSE <<>>
    /\ nmsgs' = IF UnwindFrom(pc) = pc THEN nmsgs ELSE 0
    /\ UNCHANGED <<nfsvars, sessions, envvars, active_clients, sm, call, authenticated, grants, last,
                   removal_failed, nconns, nfails>>

Next ==
    \/ Activate
    \/ Run
    \/ AcceptError
    \/ LoopExit
    \/ Connect
    \/ \E client_ip \in Addresses : Accept(client_ip)
    \/ HandlerActive
    \/ HandlerSession
    \/ HandlerAllow
    \/ HandlerExport
    \/ HandlerWelcome
    \/ HandlerRecv
    \/ CleanupSession
    \/ CleanupExport
    \/ CleanupFirewall
    \/ HandlerFinally
    \/ ShutdownSignal

Spec == Init /\ [][Next]_vars

\* the steps the main thread takes by itself: it does not stop between two
\* statements, and conn.recv returns at the latest when the inactivity
\* timeout expires.  When a peer connects, fails its handshake or sends, and
\* when a signal arrives, is up to the environment.
MainThread ==
    \/ LoopExit
    \/ HandlerActive
    \/ HandlerSession
    \/ HandlerAllow
    \/ HandlerExport
    \/ HandlerWelcome
    \/ HandlerRecv
    \/ CleanupSession
    \/ CleanupExport
    \/ CleanupFirewall

\* the finally block of the handler is always able to run where it stands,
\* so the fairness of that step is that the thread does not stay in front
\* of it
FairSpec == Spec /\ WF_vars(MainThread) /\ []<>(pc # "h_finally")

(***************************************************************************)
(* A StateMachine object used on its own (state_machine.py): callbacks are *)
(* registered with on_enter and on_exit, and transition_to is called with  *)
(* any state.                                                              *)
(***************************************************************************)
servervars == <<state, hooks, iptables, exports_file, kernel_exports, is_unlocked,
                ssl_context, mdns_process, mdns_children, server_socket, secure_sock,
                sessions,
                path_exists, avahi, pc, h, sent, authenticated, grants, last, sig,
                removal_failed, waiting, call, active_clients, nconns, nmsgs, nfails,
                nsignals>>

\* callbacks registered so far, over all states
Registered(m) ==
    Len(m.enter_cb["DORMANT"]) + Len(m.enter_cb["ADVERTISING"])
    + Len(m.enter_cb["ACTIVE"]) + Len(m.enter_cb["SHUTDOWN"])
    + Len(m.exit_cb["DORMANT"]) + Len(m.exit_cb["ADVERTISING"])
    + Len(m.exit_cb["ACTIVE"]) + Len(m.exit_cb["SHUTDOWN"])

\* @state_machine.on_enter(s): self._enter_callbacks[s].append(func)
on_enter(s, func) ==
    /\ Registered(sm) < MaxCallbacks
    /\ sm' = [sm EXCEPT !.enter_cb[s] = Append(@, func),
                        !.hooks = <<>>, !.called = None, !.before = None]
    /\ UNCHANGED servervars

\* @state_machine.on_exit(s): self._exit_callbacks[s].append(func)
on_exit(s, func) ==
    /\ Registered(sm) < MaxCallbacks
    /\ sm' = [sm EXCEPT !.exit_cb[s] = Append(@, func),
                        !.hooks = <<>>, !.called = None, !.before = None]
    /\ UNCHANGED servervars

\* state_machine.transition_to(new_state)
Transition(new_state) ==
    /\ sm' = [transition_to([sm EXCEPT !.hooks = <<>>], new_state, Env(0))
                 EXCEPT !.called = new_state, !.before = sm.state]
    /\ UNCHANGED servervars

NextSM ==
    \/ \E s \in DeviceState, func \in Callbacks : on_enter(s, func)
    \/ \E s \in DeviceState, func \in Callbacks : on_exit(s, func)
    \/ \E new_state \in DeviceState : Transition(new_state)

(***************************************************************************)
(* activate() and run() called on a server in any state its state machine  *)
(* can have been brought to.                                               *)
(***************************************************************************)
\* SecureNASServer.__init__, as a world
FreshWorld ==
    [state |-> "DORMANT", iptables |-> <<>>, is_unlocked |-> FALSE,
     ssl_context |-> FALSE, mdns_process |-> NoProcess, mdns_children |-> <<>>,
     server_socket |-> None,
     enter_cb |-> [s \in DeviceState |-> enter_callbacks(s)],
     exit_cb |-> [s \in DeviceState |-> exit_callbacks(s)],
     hooks |-> <<>>, exc |-> None]

\* the transitions made before the call: up to MaxTransitions states
TransitionPaths ==
    UNION {[1..n -> DeviceState] : n \in 0..MaxTransitions}

RECURSIVE after_transitions(_, _, _)
after_transitions(w, path, e) ==
    IF path = <<>> THEN w
    ELSE after_transitions(transition_to(w, Head(path), e), Tail(path), e)

InitCalls ==
    /\ path_exists \in BOOLEAN
    /\ avahi \in BOOLEAN
    /\ \E path \in TransitionPaths, fail_at \in 0..Len(BaselineRules) :
          LET e == [active_count |-> 0, path_exists |-> path_exists, avahi |-> avahi,
                    fail_at |-> fail_at]
              w == after_transitions(FreshWorld, path, e)
          IN /\ state = w.state
             /\ iptables = w.iptables
             /\ is_unlocked = w.is_unlocked
             /\ ssl_context = w.ssl_context
             /\ mdns_process = w.mdns_process
             /\ mdns_children = w.mdns_children
             /\ server_socket = w.server_socket
    /\ hooks = <<>>
    /\ exports_file = <<>> /\ kernel_exports = {}
    /\ secure_sock = None
    /\ sessions = {}
    /\ pc = "constructed"
    /\ h = NoHandler /\ sent = <<>> /\ authenticated = {}
    /\ grants = [firewall |-> 0, nfs |-> 0]
    /\ last = NoLast /\ sig = NoSignal
    /\ removal_failed = FALSE /\ waiting = FALSE
    /\ sm = NoStateMachine /\ call = NoCall
    /\ active_clients = <<>>
    /\ nconns = 0 /\ nmsgs = 0 /\ nfails = 0 /\ nsignals = 0

NextCalls ==
    \/ Activate
    \/ Run

SpecCalls == InitCalls /\ [][NextCalls]_vars

\* a fresh StateMachine next to a server that was constructed and is left alone
InitSM == Init /\ path_exists /\ avahi

SpecSM == InitSM /\ [][NextSM]_vars

(***************************************************************************)
(* The classes of pkg/ used on their own: an MDNSService, a Storage, a     *)
(* Firewall or an NFS object is constructed and its methods are called in  *)
(* any order, with any outcome of the tools.  A behaviour exercises one    *)
(* object; call is the latest call: the object, the method, its argument,  *)
(* what it returned or raised, and whether the call before it was the same *)
(* call (method and argument).                                             *)
(***************************************************************************)
restvars == <<state, hooks, ssl_context, server_socket, secure_sock, sessions,
              path_exists, avahi, pc, h, sent, authenticated, grants, last, sig,
              removal_failed, waiting, sm, active_clients, nconns, nmsgs, nsignals>>

Uses(obj) == IF call = NoCall THEN TRUE ELSE call.obj = obj

Called(obj, op, arg, ret) ==
    [obj |-> obj, op |-> op, in |-> arg, ret |-> ret,
     again |-> (call.op = op /\ call.in = arg)]

\* mdns.start_advertising()
StartAdvertising ==
    /\ Uses("MDNSService")
    /\ LET m == start_advertising([process |-> mdns_process,
                                   children |-> mdns_children], avahi)
       IN mdns_process' = m.process /\ mdns_children' = m.children
    /\ call' = Called("MDNSService", "start_advertising", 0, None)
    /\ UNCHANGED <<is_unlocked, iptables, exports_file, kernel_exports, nfails, restvars>>

\* mdns.start_active(num_clients)
StartActive(num_clients) ==
    /\ Uses("MDNSService")
    /\ LET m == start_active([process |-> mdns_process,
                              children |-> mdns_children], num_clients, avahi)
       IN mdns_process' = m.process /\ mdns_children' = m.children
    /\ call' = Called("MDNSService", "start_active", num_clients, None)
    /\ UNCHANGED <<is_unlocked, iptables, exports_file, kernel_exports, nfails, restvars>>

\* mdns.stop(); the latest call keeps whether a broadcast was running
Stop ==
    /\ Uses("MDNSService")
    /\ LET m == stop([process |-> mdns_process, children |-> mdns_children])
       IN mdns_process' = m.process /\ mdns_children' = m.children
    /\ call' = Called("MDNSService", "stop", mdns_children # <<>>, None)
    /\ UNCHANGED <<is_unlocked, iptables, exports_file, kernel_exports, nfails, restvars>>

\* storage.unlock()
Unlock ==
    /\ Uses("Storage")
    /\ is_unlocked' = unlock(path_exists)
    /\ call' = Called("Storage", "unlock", is_unlocked, unlock_returns(path_exists))
    /\ UNCHANGED <<mdns_process, mdns_children, iptables, exports_file, kernel_exports,
                   nfails, restvars>>

\* storage.lock()
Lock ==
    /\ Uses("Storage")
    /\ is_unlocked' = lock(is_unlocked)
    /\ call' = Called("Storage", "lock", is_unlocked, lock_returns(is_unlocked))
    /\ UNCHANGED <<mdns_process, mdns_children, iptables, exports_file, kernel_exports,
                   nfails, restvars>>

\* firewall.initialize(), with any of its _add_rule calls failing or none
Initialize ==
    /\ Uses("Firewall")
    /\ Len(iptables) + Len(BaselineRules) <= MaxRules
    /\ \E fail_at \in 0..Len(BaselineRules) :
          LET r == initialize(iptables, fail_at)
          IN /\ MayFail(fail_at # 0)
             /\ CountFail(fail_at # 0)
             /\ iptables' = r.chain
             /\ call' = Called("Firewall", "initialize", None, r.raised)
    /\ UNCHANGED <<mdns_process, mdns_children, is_unlocked, exports_file,
                   kernel_exports, restvars>>

\* firewall._add_client_rule(client_ip): allow_client is entered
AddClientRule(client_ip) ==
    /\ Uses("Firewall")
    /\ Len(iptables) < MaxRules
    /\ \E outcome \in ToolOutcomes :
          LET r == add_client_rule(client_ip, iptables, outcome)
          IN /\ MayFail(Failing(outcome))
             /\ CountFail(Failing(outcome))
             /\ iptables' = r.chain
             /\ call' = Called("Firewall", "add_client_rule", client_ip,
                               IF r.raised # None THEN r.raised
                               ELSE IF r.rule_id = <<>> THEN None ELSE "rule_id")
    /\ UNCHANGED <<mdns_process, mdns_children, is_unlocked, exports_file,
                   kernel_exports, restvars>>

\* firewall._remove_client_rule(client_ip, rule_id): allow_client is left
RemoveClientRule(client_ip) ==
    /\ Uses("Firewall")
    /\ \E outcome \in ToolOutcomes :
          LET r == remove_client_rule(client_ip, RuleId(client_ip), iptables, outcome)
          IN /\ MayFail(Failing(outcome))
             /\ CountFail(Failing(outcome))
             /\ iptables' = r.chain
             /\ call' = Called("Firewall", "remove_client_rule", client_ip, r.raised)
    /\ UNCHANGED <<mdns_process, mdns_children, is_unlocked, exports_file,
                   kernel_exports, restvars>>

\* nfs._add_export(client_ip)
AddExport(client_ip) ==
    /\ Uses("NFS")
    /\ \E outcome \in ToolOutcomes :
          LET r == add_export(client_ip, exports_file, kernel_exports, outcome)
          IN /\ exports_file' = r.exports_file
             /\ kernel_exports' = r.kernel
             /\ call' = Called("NFS", "add_export", client_ip, r.success)
    /\ UNCHANGED <<mdns_process, mdns_children, is_unlocked, iptables, nfails, restvars>>

\* nfs._remove_export(client_ip)
RemoveExport(client_ip) ==
    /\ Uses("NFS")
    /\ \E outcome \in ToolOutcomes :
          LET r == remove_export(client_ip, exports_file, kernel_exports, outcome)
          IN /\ exports_file' = r.exports_file
             /\ kernel_exports' = r.kernel
             /\ call' = Called("NFS", "remove_export", client_ip, None)
    /\ UNCHANGED <<mdns_process, mdns_children, is_unlocked, iptables, nfails, restvars>>

NextPkg ==
    \/ StartAdvertising
    \/ \E num_clients \in 0..MaxConns : StartActive(num_clients)
    \/ Stop
    \/ Unlock
    \/ Lock
    \/ Initialize
    \/ \E client_ip \in Addresses : AddClientRule(client_ip)
    \/ \E client_ip \in Addresses : RemoveClientRule(client_ip)
    \/ \E client_ip \in Addresses : AddExport(client_ip)
    \/ \E client_ip \in Addresses : RemoveExport(client_ip)

SpecPkg == Init /\ [][NextPkg]_vars

(***************************************************************************)
(* The monolithic implementation (secure_nas_server.py): one class,        *)
(* SecureNASServer, holds the state, the registry active_clients, the      *)
(* storage flag, the publisher process and the sockets, and its            *)
(* transition_to calls the exit and entry actions directly.                *)
(*                                                                         *)
(* A server n is: state, active_clients (the sessions in insertion order,  *)
(* each with ip, firewall_rule_id and nfs_export_added), mdns_process,     *)
(* mdns_children (the publisher processes started and still running),      *)
(* storage_unlocked, ssl_context, server_socket, iptables, exports_file,   *)
(* kernel_exports, and exc, the exception leaving the call.                *)
(* An environment e is: path_exists, avahi, fail_at (which iptables call   *)
(* of _initialize_firewall fails, 0 for none), export_outcome and          *)
(* rule_outcome (the outcome of the tools in _remove_nfs_export and        *)
(* _remove_firewall_rule).                                                 *)
(***************************************************************************)
\* client_ip in self.active_clients
IsClient(clients, client_ip) == \E i \in DOMAIN clients : clients[i].ip = client_ip

\* self.active_clients[client_ip]
SessionOf(clients, client_ip) ==
    clients[CHOOSE i \in DOMAIN clients : clients[i].ip = client_ip]

\* self.active_clients[session.ip] = session: a key already there keeps its place
PutClient(clients, session) ==
    IF IsClient(clients, session.ip)
    THEN [i \in DOMAIN clients |-> IF clients[i].ip = session.ip THEN session ELSE clients[i]]
    ELSE Append(clients, session)

\* del self.active_clients[client_ip]
DelClient(clients, client_ip) == SelectSeq(clients, LAMBDA s : s.ip # client_ip)

\* list(self.active_clients.keys())
ClientKeys(clients) == [i \in DOMAIN clients |-> clients[i].ip]

\* _initialize_firewall: the old per-client rules are "deleted" with the same
\* rebuilt command as in pkg/firewall.py, then the three baseline rules are
\* appended; the first failing call ends the function, every exception is
\* logged and swallowed
initialize_firewall(n, e) ==
    [n EXCEPT !.iptables =
        AddRulesUntil(BaselineRules, cleanup_old_nas_rules(n.iptables), 1, e.fail_at).chain]

\* _unlock_storage: the flag is set when the path exists, cleared otherwise
unlock_storage(n, e) == [n EXCEPT !.storage_unlocked = e.path_exists]

\* _lock_storage
lock_storage(n) == [n EXCEPT !.storage_unlocked = FALSE]

\* _setup_mtls_server
setup_mtls_server(n) == [n EXCEPT !.ssl_context = TRUE]

\* Popen of the publisher with a TXT record; FileNotFoundError is logged
\* and mdns_process is left as it is
PublisherStarted(n, txt_record, e) ==
    IF e.avahi
    THEN [n EXCEPT !.mdns_process = txt_record,
                   !.mdns_children = Append(@, txt_record)]
    ELSE n

\* _start_mdns_broadcast
start_mdns_broadcast(n, e) ==
    PublisherStarted(n, [status |-> "advertising", clients |-> 0], e)

\* _start_mdns_broadcast_active
start_mdns_broadcast_active(n, e) ==
    PublisherStarted(n, [status |-> "active", clients |-> Len(n.active_clients)], e)

\* _stop_mdns_broadcast
stop_mdns_broadcast(n) ==
    IF n.mdns_process # NoProcess
    THEN [n EXCEPT !.mdns_children = Terminate(@, n.mdns_process),
                   !.mdns_process = NoProcess]
    ELSE n

\* _add_firewall_rule: the command, and the except clause, of
\* Firewall._add_client_rule
add_firewall_rule(client_ip, chain, outcome) == add_client_rule(client_ip, chain, outcome)

\* _remove_firewall_rule: catches CalledProcessError only
remove_firewall_rule(client_ip, rule_id, chain, outcome) ==
    remove_client_rule(client_ip, rule_id, chain, outcome)

\* _add_nfs_export: the line is appended if absent, then exportfs -ra
add_nfs_export(client_ip, exports, kernel, outcome) ==
    add_export(client_ip, exports, kernel, outcome)

\* _remove_nfs_export: [l for l in lines if client_ip not in l], then exportfs -ra
remove_nfs_export(client_ip, exports, kernel, outcome) ==
    remove_export(client_ip, exports, kernel, outcome)

RECURSIVE nas_transition_to(_, _, _)
RECURSIVE CleanupEach(_, _, _)
RECURSIVE cleanup_client(_, _, _)
RECURSIVE nas_exit_active(_, _)
RECURSIVE nas_enter_shutdown(_, _)

\* _cleanup_client: export, then rule, then the registry entry; when the
\* registry is empty, transition_to(ADVERTISING)
cleanup_client(n, client_ip, e) ==
    IF ~IsClient(n.active_clients, client_ip) THEN n
    ELSE LET session == SessionOf(n.active_clients, client_ip)
             x == IF session.nfs_export_added
                  THEN remove_nfs_export(client_ip, n.exports_file, n.kernel_exports,
                                         e.export_outcome)
                  ELSE [exports_file |-> n.exports_file, kernel |-> n.kernel_exports]
             f == IF session.firewall_rule_id # <<>>
                  THEN remove_firewall_rule(client_ip, session.firewall_rule_id,
                                            n.iptables, e.rule_outcome)
                  ELSE [chain |-> n.iptables, raised |-> None]
             n1 == [n EXCEPT !.exports_file = x.exports_file,
                             !.kernel_exports = x.kernel,
                             !.iptables = f.chain]
         IN IF f.raised # None THEN [n1 EXCEPT !.exc = "Exception"]
            ELSE LET n2 == [n1 EXCEPT !.active_clients = DelClient(@, client_ip)]
                 IN IF Len(n2.active_clients) = 0
                    THEN nas_transition_to(n2, "ADVERTISING", e)
                    ELSE n2

\* for client_ip in list(self.active_clients.keys()): self._cleanup_client(client_ip)
CleanupEach(keys, n, e) ==
    IF keys = <<>> \/ n.exc # None THEN n
    ELSE CleanupEach(Tail(keys), cleanup_client(n, Head(keys), e), e)

\* _enter_dormant: logs only
nas_enter_dormant(n, e) == n

\* _enter_advertising
nas_enter_advertising(n, e) ==
    start_mdns_broadcast(setup_mtls_server(unlock_storage(initialize_firewall(n, e), e)), e)

\* _exit_advertising: logs only
nas_exit_advertising(n, e) == n

\* _enter_active
nas_enter_active(n, e) ==
    LET unlocked == IF ~n.storage_unlocked THEN unlock_storage(n, e) ELSE n
    IN start_mdns_broadcast_active(stop_mdns_broadcast(unlocked), e)

\* _exit_active: stop the publisher, clean up every client, lock the storage
nas_exit_active(n, e) ==
    LET cleaned == CleanupEach(ClientKeys(n.active_clients), stop_mdns_broadcast(n), e)
    IN IF cleaned.exc # None THEN cleaned
       ELSE IF cleaned.storage_unlocked THEN lock_storage(cleaned) ELSE cleaned

\* _enter_shutdown: reads self.state, which transition_to has already set
nas_enter_shutdown(n, e) ==
    LET n1 == IF n.state = "ACTIVE" THEN nas_transition_to(n, "ADVERTISING", e) ELSE n
        n2 == IF n1.exc # None THEN n1
              ELSE IF n1.state = "ADVERTISING" THEN nas_transition_to(n1, "DORMANT", e)
              ELSE n1
    IN IF n2.exc # None THEN n2
       ELSE [n2 EXCEPT !.server_socket = IF @ # None THEN "closed" ELSE @]

\* SecureNASServer.transition_to of secure_nas_server.py: the state is
\* assigned first, then the exit action of the old state and the entry
\* action of the new one are called
nas_transition_to(n, new_state, e) ==
    IF n.state = new_state THEN n
    ELSE LET old_state == n.state
             n0 == [n EXCEPT !.state = new_state]
             exited == CASE old_state = "ADVERTISING" -> nas_exit_advertising(n0, e)
                         [] old_state = "ACTIVE" -> nas_exit_active(n0, e)
                         [] OTHER -> n0
         IN IF exited.exc # None THEN exited
            ELSE CASE new_state = "DORMANT" -> nas_enter_dormant(exited, e)
                   [] new_state = "ADVERTISING" -> nas_enter_advertising(exited, e)
                   [] new_state = "ACTIVE" -> nas_enter_active(exited, e)
                   [] new_state = "SHUTDOWN" -> nas_enter_shutdown(exited, e)

\* the server object, read from the variables
Nas ==
    [state |-> state, active_clients |-> active_clients, mdns_process |-> mdns_process,
     mdns_children |-> mdns_children, storage_unlocked |-> is_unlocked,
     ssl_context |-> ssl_context, server_socket |-> server_socket,
     iptables |-> iptables, exports_file |-> exports_file,
     kernel_exports |-> kernel_exports, exc |-> None]

InstallNas(n) ==
    /\ state' = n.state
    /\ active_clients' = n.active_clients
    /\ mdns_process' = n.mdns_process
    /\ mdns_children' = n.mdns_children
    /\ is_unlocked' = n.storage_unlocked
    /\ ssl_context' = n.ssl_context
    /\ server_socket' = n.server_socket
    /\ iptables' = n.iptables
    /\ exports_file' = n.exports_file
    /\ kernel_exports' = n.kernel_exports

nasvars == <<state, active_clients, mdns_process, mdns_children, is_unlocked, ssl_context,
             server_socket, iptables, exports_file, kernel_exports>>

\* variables of the other implementation, which stay as constructed
idlevars == <<hooks, sessions, authenticated, grants, removal_failed, waiting, sm, call,
              path_exists, avahi>>

NasEnv(fail_at, export_outcome, rule_outcome) ==
    [path_exists |-> path_exists, avahi |-> avahi, fail_at |-> fail_at,
     export_outcome |-> export_outcome, rule_outcome |-> rule_outcome]

\* the environments of one call: every tool succeeds, or one of them fails
NasEnvs ==
    {NasEnv(k, "ok", "ok") : k \in 0..Len(BaselineRules)}
    \cup {NasEnv(0, o, "ok") : o \in ToolOutcomes}
    \cup {NasEnv(0, "ok", o) : o \in ToolOutcomes}

EnvFails(e) == e.fail_at # 0 \/ e.export_outcome # "ok" \/ e.rule_outcome # "ok"

\* a tool may fail while the failures so far are below MaxNasFailures
NasMayFail(failed) == ~failed \/ nfails < MaxNasFailures

\* activate(): DORMANT -> ADVERTISING, else a warning
NasActivate ==
    /\ pc = "constructed"
    /\ \E e \in NasEnvs :
          /\ e.export_outcome = "ok" /\ e.rule_outcome = "ok"
          /\ NasMayFail(EnvFails(e))
          /\ CountFail(EnvFails(e))
          /\ IF state = "DORMANT"
             THEN InstallNas(nas_transition_to(Nas, "ADVERTISING", e))
             ELSE UNCHANGED nasvars
    /\ UNCHANGED <<idlevars, secure_sock, pc, h, sent, last, sig, nconns, nmsgs, nsignals>>

\* run(): returns at once unless ADVERTISING; binds, listens, wraps the
\* socket with the TLS context and enters the accept loop
NasRun ==
    /\ pc = "constructed"
    /\ state = "ADVERTISING"
    /\ IF ssl_context
       THEN pc' = "accept" /\ server_socket' = "detached" /\ secure_sock' = "listening"
       ELSE pc' = "crashed" /\ server_socket' = "closed" /\ UNCHANGED secure_sock
    /\ UNCHANGED <<state, active_clients, mdns_process, mdns_children, is_unlocked,
                   ssl_context, iptables, exports_file, kernel_exports,
                   idlevars, h, sent, last, sig, nconns, nmsgs, nfails, nsignals>>

\* ssock.accept() raises ssl.SSLError: logged, the loop goes on
NasAcceptError ==
    /\ pc = "accept"
    /\ state # "SHUTDOWN"
    /\ last' = [NoLast EXCEPT !.reason = "handshake"]
    /\ UNCHANGED <<nasvars, idlevars, secure_sock, pc, h, sent, sig, nconns, nmsgs, nfails,
                   nsignals>>

\* while self.state != DeviceState.SHUTDOWN: false, run() returns
NasLoopExit ==
    /\ pc = "accept"
    /\ state = "SHUTDOWN"
    /\ pc' = "exited"
    /\ secure_sock' = CloseSocket(secure_sock)
    /\ UNCHANGED <<nasvars, idlevars, h, sent, last, sig, nconns, nmsgs, nfails, nsignals>>

\* ssock.accept() returns a connection with a verified certificate;
\* _handle_client_connection starts
NasAccept(client_ip) ==
    /\ pc = "accept"
    /\ state # "SHUTDOWN"
    /\ nconns < MaxConns
    /\ nconns' = nconns + 1
    /\ h' = [NoHandler EXCEPT !.ip = client_ip]
    /\ sent' = <<>>
    /\ nmsgs' = 0
    /\ last' = NoLast
    /\ pc' = "n_active"
    /\ UNCHANGED <<nasvars, idlevars, secure_sock, sig, nfails, nsignals>>

\* if len(self.active_clients) == 0: self.transition_to(DeviceState.ACTIVE)
NasHandlerActive ==
    /\ pc = "n_active"
    /\ IF Len(active_clients) = 0
       THEN InstallNas(nas_transition_to(Nas, "ACTIVE", NasEnv(0, "ok", "ok")))
       ELSE UNCHANGED nasvars
    /\ pc' = "n_allow"
    /\ UNCHANGED <<idlevars, secure_sock, h, sent, last, sig, nconns, nmsgs, nfails, nsignals>>

\* rule_id = self._add_firewall_rule(client_ip); an OSError is caught by
\* `except Exception` of the handler
NasHandlerAllow ==
    /\ pc = "n_allow"
    /\ \E outcome \in ToolOutcomes :
          /\ NasMayFail(Failing(outcome))
          /\ CountFail(Failing(outcome))
          /\ LET r == add_firewall_rule(h.ip, iptables, outcome)
             IN /\ iptables' = r.chain
                /\ IF r.raised # None
                   THEN /\ h' = [h EXCEPT !.fw_tried = TRUE, !.exc = "Exception",
                                          !.reason = "error"]
                        /\ pc' = "n_cleanup"
                   ELSE /\ h' = [h EXCEPT !.fw_tried = TRUE, !.rule_id = r.rule_id]
                        /\ pc' = "n_export"
    /\ UNCHANGED <<state, active_clients, mdns_process, mdns_children, is_unlocked,
                   ssl_context, server_socket, exports_file, kernel_exports,
                   idlevars, secure_sock, sent, last, sig, nconns, nmsgs, nsignals>>

\* nfs_added = self._add_nfs_export(client_ip)
NasHandlerExport ==
    /\ pc = "n_export"
    /\ \E outcome \in ToolOutcomes :
          /\ NasMayFail(Failing(outcome))
          /\ CountFail(Failing(outcome))
          /\ LET r == add_nfs_export(h.ip, exports_file, kernel_exports, outcome)
             IN /\ exports_file' = r.exports_file
                /\ kernel_exports' = r.kernel
                /\ h' = [h EXCEPT !.nfs_tried = TRUE, !.success = r.success]
    /\ pc' = "n_register"
    /\ UNCHANGED <<state, active_clients, mdns_process, mdns_children, is_unlocked,
                   ssl_context, server_socket, iptables,
                   idlevars, secure_sock, sent, last, sig, nconns, nmsgs, nsignals>>

\* self.active_clients[client_ip] = session
NasHandlerRegister ==
    /\ pc = "n_register"
    /\ active_clients' = PutClient(active_clients,
                                   [ip |-> h.ip, firewall_rule_id |-> h.rule_id,
                                    nfs_export_added |-> h.success])
    /\ h' = [h EXCEPT !.session = TRUE]
    /\ pc' = "n_welcome"
    /\ UNCHANGED <<state, mdns_process, mdns_children, is_unlocked, ssl_context,
                   server_socket, iptables, exports_file, kernel_exports,
                   idlevars, secure_sock, sent, last, sig, nconns, nmsgs, nfails, nsignals>>

\* conn.sendall(welcome); the peer may be gone already, and sendall raises
NasHandlerWelcome ==
    /\ pc = "n_welcome"
    /\ \E delivered \in BOOLEAN :
          IF delivered
          THEN /\ sent' = Append(sent, "welcome")
               /\ pc' = "n_recv"
               /\ UNCHANGED h
          ELSE /\ h' = [h EXCEPT !.exc = "Exception", !.reason = "error"]
               /\ pc' = "n_cleanup"
               /\ sent' = <<>>
    /\ UNCHANGED <<nasvars, idlevars, secure_sock, last, sig, nconns, nmsgs, nfails, nsignals>>

\* the message loop: one conn.recv(1024) and what follows it
NasHandlerRecv ==
    /\ pc = "n_recv"
    /\ \/ \E message \in Messages :
             /\ nmsgs < MaxMsgs
             /\ nmsgs' = nmsgs + 1
             /\ sent' = Append(sent, handle_command(message))
             /\ UNCHANGED <<pc, h>>
       \/ /\ h' = [h EXCEPT !.reason = "closed"]
          /\ pc' = "n_cleanup"
          /\ sent' = <<>> /\ nmsgs' = 0
       \/ /\ h' = [h EXCEPT !.exc = "timeout", !.reason = "timeout"]
          /\ pc' = "n_cleanup"
          /\ sent' = <<>> /\ nmsgs' = 0
       \/ /\ h' = [h EXCEPT !.exc = "Exception", !.reason = "error"]
          /\ pc' = "n_cleanup"
          /\ sent' = <<>> /\ nmsgs' = 0
    /\ UNCHANGED <<nasvars, idlevars, secure_sock, last, sig, nconns, nfails, nsignals>>

\* finally: self._cleanup_client(client_ip).  The handler returns to the
\* accept loop; an OSError of the cleanup is caught by `except Exception`
\* of run(); SystemExit goes on through run() and ends the process.
NasHandlerCleanup ==
    /\ pc = "n_cleanup"
    /\ \E e \in NasEnvs :
          /\ NasMayFail(EnvFails(e))
          /\ CountFail(EnvFails(e))
          /\ \E n \in {cleanup_client(Nas, h.ip, e)} :
                /\ InstallNas(n)
                /\ IF h.exc = "SystemExit" /\ n.exc = None
                   THEN pc' = "exited" /\ secure_sock' = CloseSocket(secure_sock)
                   ELSE pc' = "accept" /\ UNCHANGED secure_sock
    /\ last' = [ip |-> h.ip, reason |-> h.reason,
                clean |-> h.reason = "closed" /\ h.exc = None,
                chain_before |-> <<>>]
    /\ h' = NoHandler
    /\ UNCHANGED <<idlevars, sent, sig, nconns, nmsgs, nsignals>>

\* where the main thread goes on after the signal handler: SystemExit when
\* transition_to returned, else the exception that left it
NasUnwind(at, raised) ==
    CASE at = "constructed" -> IF raised THEN "crashed" ELSE "exited"
      [] at = "accept" -> IF raised THEN "accept" ELSE "exited"
      [] OTHER -> "n_cleanup"

\* _signal_handler: self.transition_to(DeviceState.SHUTDOWN); sys.exit(0)
NasShutdownSignal ==
    /\ pc \notin {"exited", "crashed"}
    /\ nsignals < MaxSignals
    /\ nsignals' = nsignals + 1
    /\ sig' = IF nsignals = 0
              THEN [state |-> state, in_loop |-> (pc = "n_recv"),
                    count |-> Len(active_clients)]
              ELSE sig
    /\ \E e \in NasEnvs :
          /\ NasMayFail(EnvFails(e))
          /\ CountFail(EnvFails(e))
          /\ \E n \in {nas_transition_to(Nas, "SHUTDOWN", e)} :
             LET to == NasUnwind(pc, n.exc # None)
             IN /\ InstallNas(n)
                /\ pc' = to
                /\ secure_sock' = IF to \in {"exited", "crashed"}
                                  THEN CloseSocket(secure_sock) ELSE secure_sock
                /\ h' = IF pc \in {"constructed", "accept"} THEN h
                        ELSE [h EXCEPT !.exc = IF n.exc # None THEN "Exception"
                                               ELSE "SystemExit",
                                       !.reason = IF @ = None THEN "signal" ELSE @]
                /\ sent' = IF to = pc THEN sent ELSE <<>>
                /\ nmsgs' = IF to = pc THEN nmsgs ELSE 0
    /\ UNCHANGED <<idlevars, last, nconns>>

NextNas ==
    \/ NasActivate
    \/ NasRun
    \/ NasAcceptError
    \/ NasLoopExit
    \/ \E client_ip \in Addresses : NasAccept(client_ip)
    \/ NasHandlerActive
    \/ NasHandlerAllow
    \/ NasHandlerExport
    \/ NasHandlerRegister
    \/ NasHandlerWelcome
    \/ NasHandlerRecv
    \/ NasHandlerCleanup
    \/ NasShutdownSignal

SpecNas == Init /\ [][NextNas]_vars

(***************************************************************************)
(* Properties.                                                             *)
(***************************************************************************)
HasRule(client_ip) == \E i \in DOMAIN iptables : iptables[i] = ClientRule(client_ip)

HasExport(client_ip) == \E i \in DOMAIN exports_file : exports_file[i] = ExportLine(client_ip)

HandlerSteps == {"h_active", "h_session", "h_allow", "h_export", "h_welcome", "h_recv",
                 "c_session", "c_export", "c_firewall", "h_finally"}

\* no connection handler is running
Quiescent == pc \notin HandlerSteps

\* C1: a per-client firewall rule or an export entry for an address exists
\* only while the handler of an authenticated connection from that address
\* has not finished its cleanup (release steps that themselves fail put
\* aside).  The code breaks it: an export line written before a failed
\* reload is never removed (see C9).
C1_GrantOnlyDuringSession ==
    ~removal_failed =>
        \A a \in Addresses :
            (HasRule(a) \/ HasExport(a)) =>
                /\ a \in authenticated
                /\ pc \in HandlerSteps
                /\ h.ip = a

\* C2: every grant half that was acquired is released exactly once on every
\* way out of the handler (peer close, timeout, exception, signal), never
\* released when it was not acquired, and nothing is outstanding while no
\* handler runs.
C2_ReleaseExactlyOnce ==
    /\ h.fw_released <= (IF h.rule_id # <<>> THEN 1 ELSE 0)
    /\ h.nfs_released <= (IF h.success THEN 1 ELSE 0)
    /\ pc = "h_finally" =>
          /\ h.rule_id # <<>> => h.fw_released = 1
          /\ h.success => h.nfs_released = 1
    /\ Quiescent => grants.firewall = 0 /\ grants.nfs = 0

\* C2 witness: a session that ended by an exception of the message loop,
\* with both halves acquired and both released
C2_Witness ==
    /\ pc = "h_finally"
    /\ h.exc = "Exception" /\ h.reason = "error"
    /\ h.rule_id # <<>> /\ h.success
    /\ h.fw_released = 1 /\ h.nfs_released = 1

\* C3: once the session has been removed from the registry, the release of
\* every acquired grant half has already been attempted.  The code removes
\* the session first (innermost finally) and releases afterwards.
C3_ReleaseBeforeUnregister ==
    h.unregistered =>
        /\ h.rule_id # <<>> => h.fw_released >= 1
        /\ h.success => h.nfs_released >= 1

\* C4: nothing is sent on a connection before both allow_client and
\* export_for_client were attempted, and the first thing sent is the welcome.
C4_GrantBeforeWelcome ==
    sent # <<>> => h.fw_tried /\ h.nfs_tried /\ sent[1] = "welcome"

\* C4 witness: the welcome was sent on a connection whose firewall rule
\* could not be added and whose export succeeded
C4_Witness ==
    /\ sent = <<"welcome">>
    /\ h.fw_tried /\ h.nfs_tried
    /\ h.rule_id = <<>> /\ h.success

\* C5: after activate(), at the points where the server waits (the accept
\* loop between connections, a handler in its message loop) the registry
\* holds exactly the open sessions, and the state is ACTIVE iff it holds one,
\* ADVERTISING otherwise; shutdown put aside.  The code breaks it: a session
\* registered before a failing allow_client is never removed (see C20).
C5_CountMatchesOpenSessions ==
    nsignals = 0 =>
        /\ pc = "accept" => Cardinality(sessions) = 0 /\ state = "ADVERTISING"
        /\ pc = "h_recv" => sessions = {h.ip} /\ state = "ACTIVE"

\* C6: a shutdown signal that arrives while ACTIVE with one session in its
\* message loop leaves, once the process has unwound and every tool has
\* succeeded: no rule and no export entry of the session, storage locked, no
\* broadcast, the listening socket closed and the state SHUTDOWN.  The code
\* breaks it: the handler's finally block calls transition_to(ADVERTISING)
\* after the signal handler has set SHUTDOWN.
C6_ShutdownWhileActive ==
    (/\ pc = "exited"
     /\ sig.in_loop /\ sig.state = "ACTIVE" /\ sig.count = 1
     /\ nsignals = 1 /\ nfails = 0) =>
        /\ ~HasRule(last.ip) /\ ~HasExport(last.ip)
        /\ ~is_unlocked
        /\ mdns_process = NoProcess
        /\ secure_sock = "closed"
        /\ state = "SHUTDOWN"

\* C7: SHUTDOWN is terminal: a step taken in SHUTDOWN leaves the state
\* SHUTDOWN and runs no callback.  The code breaks it: transition_to accepts
\* any new state, also when called in SHUTDOWN.
C7_ShutdownTerminal ==
    [][state = "SHUTDOWN" => (state' = "SHUTDOWN" /\ hooks' \in {hooks, <<>>})]_vars

\* C8: after a connect-then-disconnect cycle in which every tool succeeded,
\* the INPUT chain is what it was when the connection was accepted.  The
\* code breaks it: returning to ADVERTISING runs Firewall.initialize again,
\* which appends the three baseline rules once more.
C8_ChainRestoredAfterCycle ==
    (pc = "accept" /\ last.clean /\ nfails = 0) => iptables = last.chain_before

\* C9: after a connection from an address has been handled to the end, no
\* line of the export table refers to that address, whatever the outcome of
\* the export step (release steps that themselves fail put aside).  The code
\* breaks it: _add_export appends the line, the reload fails, success is
\* False and the release is skipped.
C9_NoExportAfterCycle ==
    (pc = "accept" /\ last.ip # NoIp /\ ~removal_failed) =>
        \A i \in DOMAIN exports_file : ~StrIn(last.ip, exports_file[i])

\* C10: while a client whose rule insertion and export succeeded is in the
\* message loop, its firewall rule and its export entry exist and the state
\* is ACTIVE; after it has closed the connection, every tool having
\* succeeded, both are gone and the state is ADVERTISING.
C10_GrantWhileConnected ==
    /\ (pc = "h_recv" /\ h.rule_id # <<>> /\ h.success) =>
          /\ HasRule(h.ip)
          /\ HasExport(h.ip) /\ ExportLine(h.ip) \in kernel_exports
          /\ state = "ACTIVE"
    /\ (pc = "accept" /\ last.clean /\ nfails = 0) =>
          /\ ~HasRule(last.ip)
          /\ ~HasExport(last.ip) /\ ExportLine(last.ip) \notin kernel_exports
          /\ state = "ADVERTISING"

\* C10 witness: 10.0.0.5 connected, was served and closed the connection,
\* every tool having succeeded
C10_Witness ==
    /\ pc = "accept"
    /\ last.clean /\ last.ip = IP_5
    /\ nfails = 0

\* C11: a failed TLS handshake creates no session, adds no firewall rule,
\* leaves the export table and the device state as they were, sends nothing,
\* and leaves the accept loop accepting; a connection handler only ever runs
\* for a peer that passed the handshake.
C11_HandshakeFailureNoEffect ==
    /\ [](pc \in HandlerSteps => h.ip \in authenticated)
    /\ [](sessions \subseteq authenticated)
    /\ [][(last' # last /\ last'.reason = "handshake") =>
             /\ UNCHANGED <<sessions, iptables, exports_file, kernel_exports, state,
                            sent, authenticated, grants>>
             /\ pc' = "accept"
             /\ secure_sock' = "listening"]_vars

\* C11 witness: after 10.0.0.5 was served, the handshake of a peer has failed
\* while the device advertises; the accept loop is waiting for the next
\* connection
C11_Witness ==
    /\ pc = "accept"
    /\ last.reason = "handshake"
    /\ state = "ADVERTISING"
    /\ secure_sock = "listening"
    /\ sessions = {} /\ authenticated = {IP_5}

\* C12: a second client (another address) that connected while the first
\* session was open is still connected; as long as it is, the state stays
\* ACTIVE, also when the first client disconnects.  The code breaks it: the
\* second connection sits in the listen backlog until the first handler has
\* returned (see C13), the registry never holds two sessions, and the first
\* handler's finally block goes back to ADVERTISING.
C12_StaysActiveWhileSecondOpen ==
    [][(waiting /\ waiting' /\ state = "ACTIVE" /\ nsignals' = 0 /\ nfails' = 0)
           => state' = "ACTIVE"]_vars

\* C13: while a handler is blocked in its message loop and another client
\* has connected, the server is able to accept that client.  The code breaks
\* it: run() calls _handle_client_connection on the accepting thread, so
\* accept() is not called again before the handler has returned.
C13_IdleSessionDoesNotBlockAccept ==
    (pc = "h_recv" /\ waiting /\ state # "SHUTDOWN") =>
        ENABLED (\E client_ip \in Addresses : Accept(client_ip))

\* C14: transition_to(S) called in state S runs no exit callback and no
\* enter callback and leaves the state S, for every S.
C14_SameStateNoHooks ==
    (sm.called # None /\ sm.before = sm.called) =>
        /\ sm.hooks = <<>>
        /\ sm.state = sm.before
        /\ sm.exc = None

\* C14 witness: transition_to(ACTIVE) was called in ACTIVE, a state with an
\* exit callback and an enter callback registered
C14_Witness ==
    /\ sm.called = "ACTIVE" /\ sm.before = "ACTIVE"
    /\ sm.exit_cb["ACTIVE"] # <<>>
    /\ sm.enter_cb["ACTIVE"] # <<>>

\* C15: transition_to(new) called in another state runs the exit callbacks
\* of the old state in registration order, each observing the old state,
\* then the enter callbacks of the new state in registration order, each
\* observing the new state, and nothing else; the state is the new one.
C15_ExitThenStateThenEnter ==
    (sm.called # None /\ sm.before # sm.called) =>
        LET exits == sm.exit_cb[sm.before]
            enters == sm.enter_cb[sm.called]
        IN /\ sm.state = sm.called
           /\ Len(sm.hooks) = Len(exits) + Len(enters)
           /\ \A i \in 1..Len(exits) :
                 sm.hooks[i].hook = exits[i] /\ sm.hooks[i].seen = sm.before
           /\ \A j \in 1..Len(enters) :
                 /\ sm.hooks[Len(exits) + j].hook = enters[j]
                 /\ sm.hooks[Len(exits) + j].seen = sm.called

\* C15 witness: a transition ADVERTISING -> ACTIVE with two different exit
\* callbacks on ADVERTISING and an enter callback on ACTIVE
C15_Witness ==
    /\ sm.before = "ADVERTISING" /\ sm.called = "ACTIVE"
    /\ sm.exit_cb["ADVERTISING"] = <<"returns", "raises">>
    /\ sm.enter_cb["ACTIVE"] # <<>>
    /\ Len(sm.hooks) = 3

\* C16: a callback that raises is noted and stops nothing: the callbacks
\* after it in the same list were called, the state is the new one, the
\* enter callbacks were called after a raising exit callback, and no
\* exception left transition_to.
C16_RaisingHookContained ==
    (sm.called # None /\ sm.before # sm.called) =>
        /\ sm.exc = None
        /\ sm.state = sm.called
        /\ Len(sm.hooks) = Len(sm.exit_cb[sm.before]) + Len(sm.enter_cb[sm.called])
        /\ \A i \in 1..Len(sm.hooks) :
              sm.hooks[i].raised = (sm.hooks[i].hook = "raises")

\* C16 witness: the first of two exit callbacks raised; the second one and
\* the enter callback of the new state were called
C16_Witness ==
    /\ sm.before = "DORMANT" /\ sm.called = "SHUTDOWN"
    /\ sm.exit_cb["DORMANT"] = <<"raises", "returns">>
    /\ sm.enter_cb["SHUTDOWN"] = <<"raises">>
    /\ Len(sm.hooks) = 3
    /\ sm.hooks[1].raised /\ ~sm.hooks[2].raised /\ sm.hooks[3].raised

\* C17: activate() called in DORMANT leaves the state ADVERTISING; called in
\* any other state it changes neither the state nor the firewall chain, the
\* storage lock, the TLS context, the broadcast or the export table, and no
\* callback runs.
C17_ActivateOnlyFromDormant ==
    [][(call' # call /\ call'.op = "activate") =>
          IF state = "DORMANT"
          THEN state' = "ADVERTISING"
          ELSE UNCHANGED <<state, hooks, iptables, is_unlocked, ssl_context,
                           mdns_process, server_socket, exports_file,
                           kernel_exports>>]_vars

\* C17 witness: activate() was called on a server in ACTIVE
C17_Witness ==
    /\ call = [op |-> "activate", in |-> "ACTIVE"]
    /\ state = "ACTIVE"
    /\ pc = "constructed"

\* C18: run() called in a state other than ADVERTISING binds no socket,
\* accepts nothing and leaves the state; the accept loop is only ever
\* reached by a run() that was called in ADVERTISING.
C18_RunOnlyInAdvertising ==
    /\ [][(call' # call /\ call'.op = "run" /\ state # "ADVERTISING") =>
             UNCHANGED <<state, hooks, pc, server_socket, secure_sock, sessions,
                         iptables, nconns>>]_vars
    /\ [](secure_sock # None \/ pc # "constructed" =>
             call = [op |-> "run", in |-> "ADVERTISING"])

\* C18 witness: run() was called on a server in SHUTDOWN and has returned
C18_Witness ==
    /\ call = [op |-> "run", in |-> "SHUTDOWN"]
    /\ state = "SHUTDOWN"
    /\ pc = "constructed" /\ secure_sock = None /\ server_socket = None

\* C19: once a shutdown signal has been delivered, run() comes to an end,
\* whether or not a connection arrives afterwards and whether or not a
\* handler was running.  The code breaks it: the signal handler ends the
\* loop only through the SystemExit it raises; when a release step of the
\* unwinding handler raises an OSError, that exception replaces the
\* SystemExit, is caught by the handler, the finally block goes back to
\* ADVERTISING, and the loop blocks in accept() again.
C19_ShutdownTerminates ==
    (nsignals > 0) ~> (pc \in {"exited", "crashed"})

\* C20: when the handling of an authenticated connection has failed (an
\* exception or a timeout at any point after the handshake) and no signal
\* was involved, the handler is back in the accept loop having done its
\* cleanup: the session of that connection is out of the registry, no grant
\* is outstanding, the state is ADVERTISING when the registry is empty, and
\* the listening socket is open.  The code breaks it: _create_session runs
\* before the with statement of client_access, so an exception of
\* allow_client leaves the session registered.
C20_FailureContained ==
    (pc = "accept" /\ last.reason \in {"error", "timeout"} /\ nsignals = 0) =>
        /\ last.ip \notin sessions
        /\ grants.firewall = 0 /\ grants.nfs = 0
        /\ sessions = {} => state = "ADVERTISING"
        /\ secure_sock = "listening"

\* how many times a callback appears in a log
TimesRun(log, name) == Cardinality({i \in DOMAIN log : log[i].hook = name})

\* a sequence with runs of equal neighbours reduced to one element
RECURSIVE Collapse(_)
Collapse(seq) ==
    IF Len(seq) <= 1 THEN seq
    ELSE IF seq[1] = seq[2] THEN Collapse(Tail(seq))
         ELSE <<seq[1]>> \o Collapse(Tail(seq))

\* the values the device state has in the course of a step that runs
\* callbacks: the state before, the state each callback observed, the state
\* after (every state of the server has an enter callback, so no value is
\* missed)
StatesPassed(before, log, after) ==
    Collapse(<<before>> \o [i \in DOMAIN log |-> log[i].seen] \o <<after>>)

\* C21: a shutdown signal received in ACTIVE takes the state through ACTIVE,
\* ADVERTISING, DORMANT, SHUTDOWN in that order and runs exit_active and
\* exit_advertising once each; received in ADVERTISING it takes the state
\* through DORMANT to SHUTDOWN and runs exit_advertising once.  The code
\* breaks it: transition_to has assigned SHUTDOWN before enter_shutdown
\* calls _perform_shutdown, which therefore reads SHUTDOWN as the current
\* state and makes neither intermediate transition.
C21_ShutdownPassesThroughStates ==
    [][(nsignals' = nsignals + 1) =>
          /\ state = "ACTIVE" =>
                /\ StatesPassed(state, hooks', state')
                      = <<"ACTIVE", "ADVERTISING", "DORMANT", "SHUTDOWN">>
                /\ TimesRun(hooks', "exit_active") = 1
                /\ TimesRun(hooks', "exit_advertising") = 1
          /\ state = "ADVERTISING" =>
                /\ StatesPassed(state, hooks', state')
                      = <<"ADVERTISING", "DORMANT", "SHUTDOWN">>
                /\ TimesRun(hooks', "exit_advertising") = 1]_vars

\* C22: while the process runs and between transitions, the publisher being
\* installed and every tool having succeeded, the outstanding broadcast
\* says "advertising" in ADVERTISING and "active" in ACTIVE, and there is
\* none in DORMANT and in SHUTDOWN.  The code breaks it: exit_advertising
\* only logs, so the broadcast started by enter_advertising is still
\* outstanding after ADVERTISING was left for SHUTDOWN.
C22_AdvertiserMatchesState ==
    (avahi /\ nfails = 0 /\ pc \notin {"exited", "crashed"}) =>
        /\ state = "ADVERTISING" => mdns_process.status = "advertising"
        /\ state = "ACTIVE" => mdns_process.status = "active"
        /\ state \in {"DORMANT", "SHUTDOWN"} => mdns_process = NoProcess

\* C23: while the state is ACTIVE and a session is in its message loop, the
\* client count of the outstanding "active" broadcast is the count of the
\* session registry.  The code breaks it: the handler calls
\* transition_to(ACTIVE) before client_access creates the session, so
\* enter_active reads active_count = 0, and nothing republishes afterwards.
C23_ActiveBroadcastCountsSessions ==
    (state = "ACTIVE" /\ pc = "h_recv" /\ mdns_process.status = "active") =>
        mdns_process.clients = Cardinality(sessions)

\* C24: after any sequence of start_advertising(), start_active(n) and
\* stop() calls at most one publisher process is running and it is the one
\* _process refers to; after a start it is the one of that start (none when
\* the publisher cannot be started); stop() with nothing running leaves
\* nothing running.
C24_OneBroadcastOutstanding ==
    /\ Len(mdns_children) <= 1
    /\ mdns_children = (IF mdns_process = NoProcess THEN <<>> ELSE <<mdns_process>>)
    /\ call.op = "start_advertising" =>
          mdns_process = (IF avahi THEN [status |-> "advertising", clients |-> 0]
                          ELSE NoProcess)
    /\ call.op = "start_active" =>
          mdns_process = (IF avahi THEN [status |-> "active", clients |-> call.in]
                          ELSE NoProcess)
    /\ call.op = "stop" => mdns_process = NoProcess /\ mdns_children = <<>>

\* C24 witness: start_active(2) was called right after start_active(2) and
\* its broadcast is the only one running
C24_Witness ==
    /\ call.op = "start_active" /\ call.again /\ call.in = 2
    /\ avahi
    /\ mdns_children = <<[status |-> "active", clients |-> 2]>>

\* C25: unlock() with the path present returns True and leaves the gate
\* unlocked, the first time and every time after; lock() returns True and
\* leaves the gate locked, the first time and every time after; the gate
\* after a call depends on that call alone, not on the gate before it.
C25_StorageIdempotent ==
    /\ (call.op = "unlock" /\ path_exists) => (call.ret /\ is_unlocked)
    /\ (call.op = "unlock" /\ ~path_exists) => (~call.ret /\ ~is_unlocked)
    /\ call.op = "lock" => (call.ret /\ ~is_unlocked)

\* C25 witness: lock() was called right after lock(), on a locked gate
C25_Witness ==
    /\ call.op = "lock" /\ call.again /\ ~call.in
    /\ call.ret /\ ~is_unlocked

\* C26: when the storage path does not exist the gate is locked at all
\* times (unlock() has failed), and still activate() called in DORMANT leaves
\* the state ADVERTISING with the TLS context built and the advertising
\* broadcast started, and the handler of the first authenticated client
\* leaves the state ACTIVE with the active broadcast started (the broadcasts
\* when the publisher is installed; activate() with every iptables call
\* succeeding).
C26_MissingVolumeStillServes ==
    /\ [](~path_exists => ~is_unlocked /\ ~unlock_returns(path_exists))
    /\ [][(~path_exists /\ call'.op = "activate" /\ state = "DORMANT"
             /\ nfails' = nfails) =>
            /\ state' = "ADVERTISING"
            /\ ssl_context'
            /\ avahi => mdns_process'.status = "advertising"]_vars
    /\ [][(~path_exists /\ pc = "h_active" /\ pc' = "h_session" /\ sessions = {}) =>
            /\ state' = "ACTIVE"
            /\ ssl_context'
            /\ avahi => mdns_process'.status = "active"]_vars

\* C26 witness: without the storage path, the first client has authenticated
\* and its handler has made the state ACTIVE; the gate is locked
C26_Witness ==
    /\ ~path_exists /\ avahi
    /\ pc = "h_session" /\ sessions = {}
    /\ state = "ACTIVE"
    /\ ~is_unlocked /\ ssl_context
    /\ mdns_process.status = "active"

\* how many rules of the chain are equal to `rule`
TimesIn(chain, rule) == Cardinality({i \in DOMAIN chain : chain[i] = rule})

\* C27: after initialize() has returned the chain holds no per-client rule
\* and each baseline rule once, and an initialize() that follows an
\* initialize() leaves the chain as it found it.  The code breaks it:
\* _add_rule appends with `iptables -A` without looking for the rule, so
\* every call adds the three baseline rules again (see C8), and the command
\* _cleanup_old_nas_rules builds deletes nothing.
C27_InitializeIdempotent ==
    /\ []((call.op = "initialize" /\ call.ret = None) =>
            /\ \A a \in Addresses : TimesIn(iptables, ClientRule(a)) = 0
            /\ \A k \in DOMAIN BaselineRules : TimesIn(iptables, BaselineRules[k]) = 1)
    /\ [][(/\ call.op = "initialize" /\ call.ret = None
           /\ call'.op = "initialize" /\ call'.ret = None) =>
             iptables' = iptables]_vars

\* C28: in every reachable state the INPUT chain holds at most one allow
\* rule per client address.  The code breaks it: a rule whose deletion
\* failed stays in the chain, the cleanup run on the way back to ADVERTISING
\* deletes nothing (the rebuilt command has lost its -D, see C35), and the
\* next connection from that address appends the rule a second time.
C28_OneRulePerAddress ==
    \A a \in Addresses : TimesIn(iptables, ClientRule(a)) <= 1

\* C29: after any sequence of _add_export and _remove_export calls, with any
\* outcome of the file operations and of the reload, /etc/exports holds at
\* most one line per client address; _add_export of an address whose line
\* is in the file leaves the file as it is.
C29_OneExportLinePerAddress ==
    /\ [](\A a \in Addresses : TimesIn(exports_file, ExportLine(a)) <= 1)
    /\ [][(call'.op = "add_export"
             /\ TimesIn(exports_file, ExportLine(call'.in)) > 0) =>
            exports_file' = exports_file]_vars

\* C29 witness: _add_export("10.0.0.5") was called right after
\* _add_export("10.0.0.5"), with the line of 10.0.0.50 in the file as well
C29_Witness ==
    /\ call.op = "add_export" /\ call.again /\ call.in = IP_5
    /\ exports_file = <<ExportLine(IP_50), ExportLine(IP_5)>>

\* C30: when the rule insertion or the export step of a grant has failed
\* (no signal involved), the handler goes on: the session is in the
\* registry, the other half is attempted next, the welcome is the first
\* thing sent, and at the end of the handler the half that was applied has
\* been released once and no release was attempted for the half that was
\* not.  The code breaks it: when iptables cannot be run at all the OSError
\* is not caught by _add_client_rule and ends the handler before the export
\* and the welcome (see C20).
C30_HalfGrantFailureNotFatal ==
    /\ [][(pc = "h_allow" /\ pc' # pc /\ nsignals' = nsignals /\ h'.rule_id = <<>>) =>
            (pc' = "h_export" /\ h.ip \in sessions')]_vars
    /\ [][(pc = "h_export" /\ pc' # pc /\ nsignals' = nsignals /\ ~h'.success) =>
            (pc' = "h_welcome" /\ h.ip \in sessions')]_vars
    /\ []((pc = "h_recv" /\ (h.rule_id = <<>> \/ ~h.success)) =>
            (sent[1] = "welcome" /\ h.ip \in sessions))
    /\ [](h.rule_id = <<>> => h.fw_released = 0)
    /\ [](~h.success => h.nfs_released = 0)
    /\ []((pc = "h_finally" /\ h.nfs_tried) =>
            /\ h.success => h.nfs_released = 1
            /\ h.rule_id # <<>> => h.fw_released = 1)

\* C31: when an iptables call of Firewall.initialize fails while ADVERTISING
\* is entered, the rest of enter_advertising is still performed: the storage
\* is unlocked when its path exists, the TLS context is built and the
\* advertising broadcast started, and run() never finds the TLS context
\* missing.  The code breaks it: initialize logs the CalledProcessError and
\* raises it again, the exception leaves enter_advertising at its first
\* statement, and run() fails on self.ssl_context = None.
C31_BaselineFailureContained ==
    /\ [][(state # "ADVERTISING" /\ state' = "ADVERTISING" /\ nfails' > nfails) =>
            /\ is_unlocked' = path_exists
            /\ ssl_context'
            /\ avahi => mdns_process'.status = "advertising"]_vars
    /\ [](pc # "crashed")

\* C32: a session in its message loop comes to the end of the loop (the peer
\* closes, or the inactivity timeout expires), and once the handler of a
\* session that ended so is back in the accept loop, no signal having been
\* delivered and no release step having failed, the rule and the export
\* line of its address are gone, the address is out of the registry, and
\* the state is ADVERTISING when the registry is empty.  The code breaks it:
\* the export line written before a failed reload is never released.
C32_RevocationHappens ==
    /\ (pc = "h_recv") ~> (pc # "h_recv")
    /\ []((pc = "accept" /\ last.reason \in {"closed", "timeout"}
             /\ nsignals = 0 /\ ~removal_failed) =>
            /\ ~HasRule(last.ip)
            /\ ~HasExport(last.ip)
            /\ last.ip \notin sessions
            /\ sessions = {} => state = "ADVERTISING")

\* C33: whatever a client sends in the message loop, LIST_FILES and
\* READ_FILE:<name> included, everything sent on the connection is the
\* welcome or an acknowledgement that echoes the message: no directory
\* listing and no file content.  The code breaks it: handle_command answers
\* LIST_FILES with _list_files() and READ_FILE:<name> with _read_file(name).
C33_RepliesAreAcknowledgements ==
    \A i \in DOMAIN sent : sent[i] \in {"welcome", "ack"}

\* C34: in a handler the export is attempted only after the firewall rule
\* was, the release of the rule is attempted only after the release of the
\* export, and so, on every way out and no release step having failed, a
\* line that this handler wrote to the export table is gone by the time the
\* handler's rule has been deleted.  The order holds in the code; the
\* consequence does not: the line written before a failed reload is never
\* released, and it outlives the rule.
C34_ExportInsideFirewall ==
    /\ h.nfs_tried => h.fw_tried
    /\ h.fw_released > 0 => (h.success => h.nfs_released > 0)
    /\ (h.fw_released > 0 /\ ~HasRule(h.ip) /\ ~removal_failed) =>
          ~(h.wrote_line /\ HasExport(h.ip))

\* C35: ADVERTISING is entered, and so Firewall.initialize is run, only
\* while no handler stands between the acquisition and the release of its
\* firewall rule: by activate() before any connection, and by the finally
\* block of a handler after allow_client has been left.
C35_InitializeOutsideGrants ==
    [][(state # "ADVERTISING" /\ state' = "ADVERTISING") =>
          /\ grants.firewall = 0
          /\ pc \in {"constructed", "h_finally"}
          /\ h.rule_id # <<>> => h.fw_released = 1]_vars

\* C35 witness: a session that held its rule has ended, the handler has gone
\* back to ADVERTISING, and initialize has run a second time
C35_Witness ==
    /\ pc = "accept"
    /\ last.clean /\ nfails = 0
    /\ state = "ADVERTISING"
    /\ TimesIn(iptables, MtlsPortRule) = 2
    /\ grants.firewall = 0

\* C36: _remove_export(X) leaves the lines of every other address as they
\* were, also of an address whose text contains X (10.0.0.50 and 10.0.0.5).
\* The code breaks it: it drops every line with `client_ip in line`, and
\* "10.0.0.5" is part of the line of 10.0.0.50.
C36_RemoveExportOnlyOwnLines ==
    [][call'.op = "remove_export" =>
          \A a \in Addresses \ {call'.in} :
              TimesIn(exports_file', ExportLine(a)) = TimesIn(exports_file, ExportLine(a))]_vars

\* C37: in DORMANT and in SHUTDOWN (transition_to having returned) the
\* storage is locked, however the state was reached.  The code breaks it:
\* only exit_active locks; a shutdown from ADVERTISING runs exit_advertising,
\* which only logs, and _perform_shutdown, which finds the state SHUTDOWN
\* and does not pass through DORMANT, so the storage that enter_advertising
\* unlocked stays unlocked.
C37_LockedWhenNotServing ==
    state \in {"DORMANT", "SHUTDOWN"} => ~is_unlocked

\* C38: in secure_nas_server.py, when transition_to(SHUTDOWN) is called in
\* ACTIVE with one registered client and returns, no tool having failed,
\* the state is SHUTDOWN, the rule and the export line of the client are
\* gone, the registry is empty, the storage is locked and no publisher
\* process is running or referred to.  The code breaks it: _cleanup_client,
\* called by _exit_active, finds the registry empty and calls
\* transition_to(ADVERTISING), which starts the advertising broadcast again;
\* _enter_shutdown then finds the state ADVERTISING and calls
\* transition_to(DORMANT), and the call returns in DORMANT with the
\* publisher running.
C38_MonolithShutdownFromActive ==
    [][(nsignals' > nsignals /\ nfails' = 0
          /\ state = "ACTIVE" /\ Len(active_clients) = 1) =>
            /\ state' = "SHUTDOWN"
            /\ \A i \in DOMAIN iptables' :
                  iptables'[i] # ClientRule(active_clients[1].ip)
            /\ \A i \in DOMAIN exports_file' :
                  exports_file'[i] # ExportLine(active_clients[1].ip)
            /\ active_clients' = <<>>
            /\ ~is_unlocked'
            /\ mdns_process' = NoProcess /\ mdns_children' = <<>>]_vars

=============================================================================
